---------------------------- MODULE Spec2Model ----------------------------
(***************************************************************************)
(* A model of cfail.rs: the `cfail` annotation lexer and parser            *)
(* (src/source), the matcher of annotations and compiler messages          *)
(* (src/match_.rs) and the shared primitives of src/lib.rs.                *)
(*                                                                         *)
(* Texts are sequences of one-character strings; "\n" is the newline.      *)
(* Option<T> is a sequence of length 0 (None) or 1 (Some(v) = <<v>>).      *)
(***************************************************************************)
EXTENDS Integers, Sequences, FiniteSets, TLC

VARIABLES
    \* is_substring (src/match_.rs)
    ann, msg, sub_result,
    \* match_ (src/match_.rs)
    \* outcome is the Outcome that test_ makes of the Mismatches
    anns_in, msgs_in, anns, msgs, mismatches, mpc, iters, outcome,
    \* the annotation Lexer (src/source/parse/lexer.rs): its fields, and the
    \* items its calls to next have returned so far
    input, iter, offset, lex_state, lexed,
    \* the annotation Parser (src/source/parse/mod.rs): the source text, the
    \* fields of the Parser (lines is the number of lines taken off the Lines
    \* iterator), the map and the result of Source::parse, and the items the
    \* calls to Parser::next have returned so far
    source, curr_line, last_line, last_match, lines, start_of_line, state,
    map, parsed, yielded,
    \* the rustc stderr Parser (src/rustc/parse/mod.rs): the stderr text and
    \* the path, the fields of the Parser (m_lines is the number of lines taken
    \* off the Lines iterator), the map and the outcome of Stderr::parse, and
    \* the items the calls to Parser::next have returned so far
    stderr, path, m_last_line, m_lines, m_start_of_line, m_map, m_parsed, m_yielded,
    \* the rustc stderr Lexer (src/rustc/parse/lexer.rs): its fields, and the
    \* results its calls to next have had so far
    m_input, m_iter, m_lex_state, m_lexed,
    \* test_ (src/lib.rs): where the call is, the Error it returned if any,
    \* and the number of times it has run rustc; its Outcome is outcome
    t_pc, t_error, t_rustc,
    \* run (src/driver.rs): the size of the pool, what has become of the
    \* closure of each file, the channel, the number of items taken off it,
    \* the four counters and where run is
    threads, jobs, channel, taken, errors, failed, ignored, passed, r_pc,
    \* compare (src/match_.rs): its two lists, the indices of its two loops
    \* (1-based), its two bit vectors, where it is and what it returned
    c_anns, c_msgs, c_i, c_j, c_matched_anns, c_matched_msgs, c_pc, c_result

subVars   == <<ann, msg, sub_result>>
matchVars == <<anns_in, msgs_in, anns, msgs, mismatches, mpc, iters, outcome>>
lexVars   == <<input, iter, offset, lex_state, lexed>>
parseVars == <<source, curr_line, last_line, last_match, lines, start_of_line, state,
               map, parsed, yielded>>
stderrVars == <<stderr, path, m_last_line, m_lines, m_start_of_line, m_map, m_parsed,
                m_yielded>>
mlexVars  == <<m_input, m_iter, m_lex_state, m_lexed>>
testVars  == <<t_pc, t_error, t_rustc>>
poolVars  == <<threads, jobs, channel, taken, errors, failed, ignored, passed, r_pc>>
compareVars == <<c_anns, c_msgs, c_i, c_j, c_matched_anns, c_matched_msgs, c_pc, c_result>>
vars      == <<subVars, matchVars, lexVars, parseVars, stderrVars, mlexVars, testVars,
               poolVars, compareVars>>

\* What the steps of one component leave alone.
notSubVars    == <<matchVars, lexVars, parseVars, stderrVars, mlexVars, testVars,
                   poolVars, compareVars>>
notMatchVars  == <<subVars, lexVars, parseVars, stderrVars, mlexVars, testVars,
                   poolVars, compareVars>>
notLexVars    == <<subVars, matchVars, parseVars, stderrVars, mlexVars, testVars,
                   poolVars, compareVars>>
notParseVars  == <<subVars, matchVars, lexVars, stderrVars, mlexVars, testVars,
                   poolVars, compareVars>>
notStderrVars == <<subVars, matchVars, lexVars, parseVars, mlexVars, testVars,
                   poolVars, compareVars>>
notMLexVars   == <<subVars, matchVars, parseVars, stderrVars, testVars,
                   poolVars, compareVars>>

None    == <<>>
Some(v) == <<v>>

(***************************************************************************)
(* Bounds of the model                                                     *)
(***************************************************************************)
MaxAnnLen == 3      \* characters of an annotation text handed to is_substring
MaxMsgLen == 3      \* characters of a message text handed to is_substring
MaxItems  == 4      \* annotations plus messages handed to match_
MaxPad    == 9      \* empty lines at the head of a source text
MaxLines  == 3      \* lines of a source text after the empty ones
MaxStderrLines == 4 \* lines of a stderr text
MaxIdleCalls == 2   \* calls of a lexer that follow its first None
MaxTestLines == 3   \* lines of the source file handed to test_
MaxRustcLines == 2  \* lines of the stderr of the rustc that test_ runs
MaxCompare == 3     \* entries of each list handed to compare
NFiles == 3         \* files named on the command line of cfail
MaxThreads == 2     \* threads of the pool

(***************************************************************************)
(* str primitives                                                          *)
(***************************************************************************)
NL == "\n"

\* All texts of at most n characters over the alphabet A.
RECURSIVE TextsUpTo(_, _)
TextsUpTo(A, n) ==
    IF n = 0 THEN {<<>>}
    ELSE LET shorter == TextsUpTo(A, n - 1)
         IN  shorter \cup {Append(t, c) : t \in {s \in shorter : Len(s) = n - 1}, c \in A}

\* str::split('\n'): the pieces between newlines, at least one piece.
RECURSIVE SplitNL(_)
SplitNL(s) ==
    IF \A i \in 1..Len(s) : s[i] # NL THEN <<s>>
    ELSE LET p == CHOOSE i \in 1..Len(s) : s[i] = NL /\ \A j \in 1..(i - 1) : s[j] # NL
         IN  <<SubSeq(s, 1, p - 1)>> \o SplitNL(SubSeq(s, p + 1, Len(s)))

\* str::lines(): the pieces between newlines, without the empty piece that
\* follows a trailing newline (and so no line at all for the empty text).
Lines(s) ==
    LET p == SplitNL(s)
    IN  IF p[Len(p)] = <<>> THEN SubSeq(p, 1, Len(p) - 1) ELSE p

\* str::starts_with
StartsWith(s, prefix) ==
    Len(prefix) <= Len(s) /\ SubSeq(s, 1, Len(prefix)) = prefix

\* The 0-based offsets at which needle occurs in hay.
Occurrences(hay, needle) ==
    {i \in 0..(Len(hay) - Len(needle)) : SubSeq(hay, i + 1, i + Len(needle)) = needle}

\* str::contains
Contains(hay, needle) == Occurrences(hay, needle) # {}

\* str::find: Some(first 0-based offset) or None
Find(hay, needle) ==
    LET occ == Occurrences(hay, needle)
    IN  IF occ = {} THEN None
        ELSE Some(CHOOSE i \in occ : \A j \in occ : i <= j)

(***************************************************************************)
(* is_substring (src/match_.rs)                                            *)
(***************************************************************************)
\* A slip in which a message line that matched stays available for the
\* next annotation line.
RECURSIVE is_substring_loop_reuse(_, _)
is_substring_loop_reuse(ann_lines, msg_lines) ==
    IF msg_lines = <<>> THEN ann_lines = <<>>
    ELSE IF ann_lines = <<>> THEN TRUE
    ELSE IF Contains(Head(msg_lines), Head(ann_lines))
         THEN is_substring_loop_reuse(Tail(ann_lines), msg_lines)
         ELSE is_substring_loop_reuse(ann_lines, Tail(msg_lines))

\* The `for msg_line in msg.lines()` loop over the peekable ann_lines, and
\* the final `ann_lines.count() == 0`.
RECURSIVE is_substring_loop(_, _)
is_substring_loop(ann_lines, msg_lines) ==
    IF msg_lines = <<>> THEN ann_lines = <<>>
    ELSE IF ann_lines = <<>> THEN TRUE
    ELSE IF Contains(Head(msg_lines), Head(ann_lines))
         THEN is_substring_loop(Tail(ann_lines), Tail(msg_lines))
         ELSE is_substring_loop(ann_lines, Tail(msg_lines))

is_substring(a, m) == is_substring_loop(Lines(a), Lines(m))

SubAlphabet == {"a", "b", NL}

InitSub ==
    /\ ann \in TextsUpTo(SubAlphabet, MaxAnnLen)
    /\ msg \in TextsUpTo(SubAlphabet, MaxMsgLen)
    /\ sub_result = None

\* One call is_substring(ann, msg).
CallIsSubstring ==
    /\ sub_result = None
    /\ sub_result' = Some(is_substring(ann, msg))
    /\ UNCHANGED <<ann, msg, notSubVars>>


(***************************************************************************)
(* Kinds and the per-line records (src/lib.rs)                             *)
(***************************************************************************)
NKINDS == 4
KINDS  == <<"Error", "Warning", "Help", "Note">>
Kind   == {KINDS[i] : i \in 1..NKINDS}

\* Annotations::new / Messages::new / Mismatches::new: [None, None, None, None]
NewRecord == [k \in Kind |-> None]

\* Annotations::insert / Messages::insert
RecordInsert(rec, kind, text) ==
    IF rec[kind] # None
    THEN [rec EXCEPT ![kind] = Some(Append(rec[kind][1], text))]
    ELSE [rec EXCEPT ![kind] = Some(<<text>>)]

\* The `match map.entry(ln)` of Source::parse and of Stderr::parse.
MapInsert(mp, ln, kind, text) ==
    IF ln \in DOMAIN mp
    THEN [mp EXCEPT ![ln] = RecordInsert(mp[ln], kind, text)]
    ELSE mp @@ (ln :> RecordInsert(NewRecord, kind, text))

\* A slip in which the entries come in descending key order.
RECURSIVE IntoIterFromDescending(_, _)
IntoIterFromDescending(mp, keys) ==
    IF keys = {} THEN <<>>
    ELSE LET k == CHOOSE x \in keys : \A y \in keys : x >= y
         IN  <<<<k, mp[k]>>>> \o IntoIterFromDescending(mp, keys \ {k})

\* BTreeMap::into_iter: the entries in ascending key order.
RECURSIVE IntoIterFrom(_, _)
IntoIterFrom(mp, keys) ==
    IF keys = {} THEN <<>>
    ELSE LET k == CHOOSE x \in keys : \A y \in keys : x <= y
         IN  <<<<k, mp[k]>>>> \o IntoIterFrom(mp, keys \ {k})

IntoIter(mp) == IntoIterFrom(mp, DOMAIN mp)

(***************************************************************************)
(* The matcher (src/match_.rs)                                             *)
(***************************************************************************)
\* Mismatches::insert
MismatchesInsert(mm, kind, line, mismatch) ==
    IF mm[kind] # None
    THEN [mm EXCEPT ![kind] = Some(Append(mm[kind][1], <<line, mismatch>>))]
    ELSE [mm EXCEPT ![kind] = Some(<<<<line, mismatch>>>>)]

\* A slip in which the unmatched annotations land on the messages side.
RECURSIVE push_anns_swapped(_, _, _)
push_anns_swapped(mm, entry, i) ==
    IF i > NKINDS THEN mm
    ELSE LET kind == KINDS[i]
             next == IF entry[2][kind] # None
                     THEN MismatchesInsert(mm, kind, entry[1],
                              [annotations |-> <<>>, messages |-> entry[2][kind][1]])
                     ELSE mm
         IN  push_anns_swapped(next, entry, i + 1)

\* Mismatches::push_anns: `for &kind in &KINDS`, from the i-th kind on.
RECURSIVE push_anns(_, _, _)
push_anns(mm, entry, i) ==
    IF i > NKINDS THEN mm
    ELSE LET kind == KINDS[i]
             next == IF entry[2][kind] # None
                     THEN MismatchesInsert(mm, kind, entry[1],
                              [annotations |-> entry[2][kind][1], messages |-> <<>>])
                     ELSE mm
         IN  push_anns(next, entry, i + 1)

\* Mismatches::push_msgs: `for &kind in &KINDS`, from the i-th kind on.
RECURSIVE push_msgs(_, _, _)
push_msgs(mm, entry, i) ==
    IF i > NKINDS THEN mm
    ELSE LET kind == KINDS[i]
             next == IF entry[2][kind] # None
                     THEN MismatchesInsert(mm, kind, entry[1],
                              [annotations |-> <<>>, messages |-> entry[2][kind][1]])
                     ELSE mm
         IN  push_msgs(next, entry, i + 1)

\* BitVec::from_elem
RECURSIVE BitVecFromElem(_, _)
BitVecFromElem(n, b) == IF n = 0 THEN <<>> ELSE Append(BitVecFromElem(n - 1, b), b)

\* BitVec::all
All(bits) == \A i \in 1..Len(bits) : bits[i]

\* `into_iter().enumerate().filter_map(..)`: the entries whose bit is clear.
RECURSIVE Unmatched(_, _)
Unmatched(list, bits) ==
    IF list = <<>> THEN <<>>
    ELSE (IF ~Head(bits) THEN <<Head(list)>> ELSE <<>>)
         \o Unmatched(Tail(list), Tail(bits))

\* A slip in which `!matched_anns[i]` is not tested, so that one annotation
\* pairs with every free message that contains it.
RECURSIVE compare_loop_greedy(_, _, _, _, _, _)
compare_loop_greedy(a, m, i, j, matched_anns, matched_msgs) ==
    IF i > Len(a) THEN <<matched_anns, matched_msgs>>
    ELSE IF j > Len(m) THEN compare_loop_greedy(a, m, i + 1, 1, matched_anns, matched_msgs)
    ELSE IF ~matched_msgs[j] /\ is_substring(a[i], m[j])
         THEN compare_loop_greedy(a, m, i, j + 1,
                  [matched_anns EXCEPT ![i] = TRUE], [matched_msgs EXCEPT ![j] = TRUE])
         ELSE compare_loop_greedy(a, m, i, j + 1, matched_anns, matched_msgs)

\* The nested loops of compare, from the pair (i, j) on (1-based).
RECURSIVE compare_loop(_, _, _, _, _, _)
compare_loop(a, m, i, j, matched_anns, matched_msgs) ==
    IF i > Len(a) THEN <<matched_anns, matched_msgs>>
    ELSE IF j > Len(m) THEN compare_loop(a, m, i + 1, 1, matched_anns, matched_msgs)
    ELSE IF ~matched_anns[i] /\ ~matched_msgs[j] /\ is_substring(a[i], m[j])
         THEN compare_loop(a, m, i, j + 1,
                  [matched_anns EXCEPT ![i] = TRUE], [matched_msgs EXCEPT ![j] = TRUE])
         ELSE compare_loop(a, m, i, j + 1, matched_anns, matched_msgs)

\* A slip in which a Mismatch is returned also when every entry is matched.
compare_always_some(a, m) ==
    LET r == compare_loop(a, m, 1, 1, BitVecFromElem(Len(a), FALSE), BitVecFromElem(Len(m), FALSE))
    IN  Some([annotations |-> Unmatched(a, r[1]), messages |-> Unmatched(m, r[2])])

compare(a, m) ==
    LET r == compare_loop(a, m, 1, 1, BitVecFromElem(Len(a), FALSE), BitVecFromElem(Len(m), FALSE))
    IN  IF All(r[1]) /\ All(r[2]) THEN None
        ELSE Some([annotations |-> Unmatched(a, r[1]), messages |-> Unmatched(m, r[2])])

compare_opt(a, m) ==
    IF a = None /\ m = None THEN None
    ELSE IF m = None THEN Some([annotations |-> a[1], messages |-> <<>>])
    ELSE IF a = None THEN Some([annotations |-> <<>>, messages |-> m[1]])
    ELSE compare(a[1], m[1])

\* The `for &kind in &KINDS` of the Ordering::Equal arm, from the i-th kind on.
RECURSIVE compare_kinds(_, _, _, _, _)
compare_kinds(mm, line, a, m, i) ==
    IF i > NKINDS THEN mm
    ELSE LET kind == KINDS[i]
             r    == compare_opt(a[kind], m[kind])
             next == IF r # None THEN MismatchesInsert(mm, kind, line, r[1]) ELSE mm
         IN  compare_kinds(next, line, a, m, i + 1)

\* The texts and lines the annotations and messages are drawn from.
MatchTexts == {<<"a">>, <<"a", "b">>}
MatchLines == {1, 2}

InitMatch ==
    /\ anns_in = <<>>
    /\ msgs_in = <<>>
    /\ anns = <<>>
    /\ msgs = <<>>
    /\ mismatches = NewRecord
    /\ mpc = "parse"
    /\ iters = 0
    /\ outcome = None

\* The number of texts a map holds.
RECURSIVE ItemsOf(_, _)
ItemsOf(mp, cells) ==
    IF cells = {} THEN 0
    ELSE LET x == CHOOSE y \in cells : TRUE
             n == IF mp[x[1]][x[2]] = None THEN 0 ELSE Len(mp[x[1]][x[2]][1])
         IN  n + ItemsOf(mp, cells \ {x})

ItemsIn(mp) == ItemsOf(mp, (DOMAIN mp) \X Kind)

\* Source::parse stores one parsed annotation.
InsertAnnotation ==
    /\ mpc = "parse"
    /\ ItemsIn(anns_in) + ItemsIn(msgs_in) < MaxItems
    /\ \E ln \in MatchLines, kind \in Kind, text \in MatchTexts :
           anns_in' = MapInsert(anns_in, ln, kind, text)
    /\ UNCHANGED <<msgs_in, anns, msgs, mismatches, mpc, iters, outcome, notMatchVars>>

\* Stderr::parse stores one parsed message.
InsertMessage ==
    /\ mpc = "parse"
    /\ ItemsIn(anns_in) + ItemsIn(msgs_in) < MaxItems
    /\ \E ln \in MatchLines, kind \in Kind, text \in MatchTexts :
           msgs_in' = MapInsert(msgs_in, ln, kind, text)
    /\ UNCHANGED <<anns_in, anns, msgs, mismatches, mpc, iters, outcome, notMatchVars>>

\* match_ is called: the two peekable cursors and the empty Mismatches.
MatchCall ==
    /\ mpc = "parse"
    /\ anns' = IntoIter(anns_in)
    /\ msgs' = IntoIter(msgs_in)
    /\ mismatches' = NewRecord
    /\ mpc' = "loop"
    /\ UNCHANGED <<anns_in, msgs_in, iters, outcome, notMatchVars>>

\* (None, None) => break
MatchBreak ==
    /\ mpc = "loop"
    /\ anns = <<>> /\ msgs = <<>>
    /\ mpc' = "done"
    /\ UNCHANGED <<anns_in, msgs_in, anns, msgs, mismatches, iters, outcome, notMatchVars>>

\* (None, Some(_))
MatchOnlyMsgs ==
    /\ mpc = "loop"
    /\ anns = <<>> /\ msgs # <<>>
    /\ mismatches' = push_msgs(mismatches, Head(msgs), 1)
    /\ msgs' = Tail(msgs)
    /\ iters' = iters + 1
    /\ UNCHANGED <<anns_in, msgs_in, anns, mpc, outcome, notMatchVars>>

\* (Some, Some), Ordering::Equal
MatchEqual ==
    /\ mpc = "loop"
    /\ anns # <<>> /\ msgs # <<>>
    /\ Head(anns)[1] = Head(msgs)[1]
    /\ mismatches' = compare_kinds(mismatches, Head(anns)[1], Head(anns)[2], Head(msgs)[2], 1)
    /\ anns' = Tail(anns)
    /\ msgs' = Tail(msgs)
    /\ iters' = iters + 1
    /\ UNCHANGED <<anns_in, msgs_in, mpc, outcome, notMatchVars>>

\* A slip in which the Greater arm reads the peeked message and leaves it in
\* the cursor.
MatchGreaterPeekOnly ==
    /\ mpc = "loop"
    /\ anns # <<>> /\ msgs # <<>>
    /\ Head(anns)[1] > Head(msgs)[1]
    /\ mismatches' = push_msgs(mismatches, Head(msgs), 1)
    /\ iters' = iters + 1
    /\ UNCHANGED <<anns_in, msgs_in, anns, msgs, mpc, outcome, notMatchVars>>

\* (Some, Some), Ordering::Greater
MatchGreater ==
    /\ mpc = "loop"
    /\ anns # <<>> /\ msgs # <<>>
    /\ Head(anns)[1] > Head(msgs)[1]
    /\ mismatches' = push_msgs(mismatches, Head(msgs), 1)
    /\ msgs' = Tail(msgs)
    /\ iters' = iters + 1
    /\ UNCHANGED <<anns_in, msgs_in, anns, mpc, outcome, notMatchVars>>

\* (Some, Some), Ordering::Less
MatchLess ==
    /\ mpc = "loop"
    /\ anns # <<>> /\ msgs # <<>>
    /\ Head(anns)[1] < Head(msgs)[1]
    /\ mismatches' = push_anns(mismatches, Head(anns), 1)
    /\ anns' = Tail(anns)
    /\ iters' = iters + 1
    /\ UNCHANGED <<anns_in, msgs_in, msgs, mpc, outcome, notMatchVars>>

\* (Some(_), None)
MatchOnlyAnns ==
    /\ mpc = "loop"
    /\ anns # <<>> /\ msgs = <<>>
    /\ mismatches' = push_anns(mismatches, Head(anns), 1)
    /\ anns' = Tail(anns)
    /\ iters' = iters + 1
    /\ UNCHANGED <<anns_in, msgs_in, msgs, mpc, outcome, notMatchVars>>

\* The lines that format writes, as records: the head line of a Mismatch
\* (`<line>: <title>` with its kind) and the lines of its texts with their
\* labels.
HeadLine(line, kind, title) == [line |-> line, kind |-> kind, label |-> title, text |-> <<>>]
TextLine(label, text)       == [line |-> 0, kind |-> "", label |-> label, text |-> text]

\* `for x in &list { buffer.push_str(&format!("<label>{:?}\n", x)) }`
RECURSIVE TextLines(_, _)
TextLines(label, list) ==
    IF list = <<>> THEN <<>>
    ELSE <<TextLine(label, Head(list))>> \o TextLines(label, Tail(list))

\* The body of `for &(line, ref mismatched) in mismatches`
format_mismatch(line, kind, mismatched) ==
    IF mismatched.annotations = <<>>
    THEN <<HeadLine(line, kind, "unmatched messages")>>
             \o TextLines(" ", mismatched.messages)
    ELSE IF mismatched.messages = <<>>
    THEN <<HeadLine(line, kind, "unmatched annotations")>>
             \o TextLines(" ", mismatched.annotations)
    ELSE <<HeadLine(line, kind, "mismatched annotations")>>
             \o TextLines(" expected: ", mismatched.annotations)
             \o TextLines("    found: ", mismatched.messages)

\* `for &(line, ref mismatched) in mismatches`
RECURSIVE format_bucket(_, _)
format_bucket(kind, entries) ==
    IF entries = <<>> THEN <<>>
    ELSE format_mismatch(Head(entries)[1], kind, Head(entries)[2])
             \o format_bucket(kind, Tail(entries))

\* format: `for &kind in &KINDS`, from the i-th kind on
RECURSIVE format_from(_, _)
format_from(mm, i) ==
    IF i > NKINDS THEN <<>>
    ELSE (IF mm[KINDS[i]] # None THEN format_bucket(KINDS[i], mm[KINDS[i]][1]) ELSE <<>>)
             \o format_from(mm, i + 1)

format(mm) == format_from(mm, 1)

\* The outcomes of test_ after match_.
Passed       == [tag |-> "Passed", report |-> <<>>]
Failed(text) == [tag |-> "Failed", report |-> text]

\* test_: no Error and no Warning mismatches, Ok(Outcome::Passed)
TestPassed ==
    /\ mpc = "done"
    /\ mismatches["Error"] = None /\ mismatches["Warning"] = None
    /\ outcome' = Some(Passed)
    /\ mpc' = "returned"
    /\ UNCHANGED <<anns_in, msgs_in, anns, msgs, mismatches, iters, notMatchVars>>

\* A slip in which a mismatch of any kind fails the test.
TestFailedAnyKind ==
    /\ mpc = "done"
    /\ \E kind \in Kind : mismatches[kind] # None
    /\ outcome' = Some(Failed(format(mismatches)))
    /\ mpc' = "returned"
    /\ UNCHANGED <<anns_in, msgs_in, anns, msgs, mismatches, iters, notMatchVars>>

\* test_: otherwise Ok(Outcome::Failed(match_::format(mismatches)))
TestFailed ==
    /\ mpc = "done"
    /\ ~(mismatches["Error"] = None /\ mismatches["Warning"] = None)
    /\ outcome' = Some(Failed(format(mismatches)))
    /\ mpc' = "returned"
    /\ UNCHANGED <<anns_in, msgs_in, anns, msgs, mismatches, iters, notMatchVars>>

(***************************************************************************)
(* The annotation lexer (src/source/parse/lexer.rs)                        *)
(***************************************************************************)
\* Kind::needle
needle(kind) ==
    CASE kind = "Error"   -> <<"e", "r", "r", "o", "r">>
      [] kind = "Help"    -> <<"h", "e", "l", "p">>
      [] kind = "Note"    -> <<"n", "o", "t", "e">>
      [] kind = "Warning" -> <<"w", "a", "r", "n", "i", "n", "g">>

\* char::to_uppercase, on the letters of the model's alphabet
UpperChar(c) ==
    CASE c = "e" -> "E" [] c = "r" -> "R" [] c = "o" -> "O" [] c = "h" -> "H"
      [] c = "l" -> "L" [] c = "p" -> "P" [] c = "n" -> "N" [] c = "t" -> "T"
      [] c = "w" -> "W" [] c = "a" -> "A" [] c = "i" -> "I" [] c = "g" -> "G"
      [] c = "m" -> "M" [] c = "x" -> "X"
      [] OTHER -> c

\* str::to_uppercase
RECURSIVE to_uppercase(_)
to_uppercase(s) ==
    IF s = <<>> THEN <<>> ELSE <<UpperChar(Head(s))>> \o to_uppercase(Tail(s))

\* A slip in which the keyword is compared after upper-casing the input, so
\* that every spelling is taken.
KeywordAtAnyCase(rest, kind) ==
    /\ Len(needle(kind)) <= Len(rest)
    /\ to_uppercase(SubSeq(rest, 1, Len(needle(kind)))) = to_uppercase(needle(kind))

\* `starts_with(needle) || starts_with(&needle.to_uppercase())`
KeywordAt(rest, kind) ==
    StartsWith(rest, needle(kind)) \/ StartsWith(rest, to_uppercase(needle(kind)))

\* Tokens and lexer errors; kind and text are empty where they do not apply.
Tok(cls)            == [cls |-> cls, kind |-> "", text |-> <<>>]
KindTok(kind)       == [cls |-> "Kind", kind |-> kind, text |-> <<>>]
ErrTok(cls, text)   == [cls |-> cls, kind |-> "", text |-> text]
IsErr(tok)          == tok.cls \in {"UnknownStartOfToken", "UnknownKind",
                                    "Expected", "LineDoesntExist", "NoPrecedingAnnotation"}

\* Lexer::new
NewLexer(in, off) == [input |-> in, iter |-> 0, offset |-> off, state |-> "Ok"]

\* Lexer::next: the item returned (None, or Some of a span and a token or an
\* error) and the lexer after the call.  iter is the number of characters the
\* CharIndices iterator has yielded, which is the byte position of the next.
LexerNext(lx) ==
    IF lx.state = "Err" THEN [item |-> None, lx |-> lx]
    ELSE IF lx.iter >= Len(lx.input) THEN [item |-> None, lx |-> lx]
    ELSE
      LET i    == lx.iter
          c    == lx.input[i + 1]
          rest == SubSeq(lx.input, i + 1, Len(lx.input))
          one  == [lx EXCEPT !.iter = i + 1]
          Spanned(l, tok) ==
              [item |-> Some([span |-> <<i + l.offset, l.iter + l.offset>>, tok |-> tok]),
               lx   |-> l]
          kind == CASE c \in {"E", "e"} -> "Error"
                    [] c \in {"H", "h"} -> "Help"
                    [] c \in {"N", "n"} -> "Note"
                    [] c \in {"W", "w"} -> "Warning"
                    [] OTHER -> ""
      IN  CASE c = " " -> Spanned(one, Tok("Whitespace"))
            [] c = ":" -> Spanned(one, Tok("Colon"))
            [] c = "^" -> Spanned(one, Tok("Caret"))
            [] c = "|" -> Spanned(one, Tok("Or"))
            [] kind = "" /\ c \notin {" ", ":", "^", "|"} ->
                   Spanned([one EXCEPT !.state = "Err"], ErrTok("UnknownStartOfToken", <<c>>))
            [] kind # "" ->
                   IF KeywordAt(rest, kind)
                   THEN Spanned([lx EXCEPT !.iter = i + Len(needle(kind))], KindTok(kind))
                   ELSE LET sp  == Find(rest, <<" ">>)
                            end == IF sp # None THEN i + sp[1] ELSE Len(lx.input)
                        IN  [item |-> Some([span |-> <<i + lx.offset, end + lx.offset>>,
                                            tok  |-> ErrTok("UnknownKind",
                                                            SubSeq(lx.input, i + 1, end))]),
                             lx   |-> [one EXCEPT !.state = "Err"]]

\* Every spelling of a text in upper- and lower-case letters.
RECURSIVE CaseSpellings(_)
CaseSpellings(s) ==
    IF s = <<>> THEN {<<>>}
    ELSE {<<c>> \o t : c \in {Head(s), UpperChar(Head(s))}, t \in CaseSpellings(Tail(s))}

\* The texts handed to the lexer: what may precede a kind, a word in the place
\* of the kind, and what may follow it.
LexBefore == {<<>>, <<" ">>, <<"^", "^", " ">>, <<"|", " ">>}
LexWords  == UNION {CaseSpellings(needle(k)) : k \in Kind}
                 \cup {<<"e", "r", "r">>, <<"x">>, <<"n", "o", "t">>}
LexAfter  == {<<>>, <<":", " ", "m">>, <<" ", "m">>, <<"s">>}
LexInputs == {b \o w \o a : b \in LexBefore, w \in LexWords, a \in LexAfter}

InitLex ==
    /\ input \in LexInputs
    /\ iter = 0
    /\ offset = 3
    /\ lex_state = "Ok"
    /\ lexed = <<>>

IdleLex ==
    /\ input = <<>>
    /\ iter = 0
    /\ offset = 0
    /\ lex_state = "Ok"
    /\ lexed = <<>>

\* The number of None at the end of the items a lexer has returned.
RECURSIVE TrailingNones(_)
TrailingNones(items) ==
    IF items # <<>> /\ items[Len(items)] = None
    THEN 1 + TrailingNones(SubSeq(items, 1, Len(items) - 1))
    ELSE 0

\* One call of Lexer::next.  Calls are followed until the first None and for
\* some calls after it.
CallLexerNext ==
    /\ TrailingNones(lexed) <= MaxIdleCalls
    /\ LET r == LexerNext([input |-> input, iter |-> iter, offset |-> offset, state |-> lex_state])
       IN  /\ iter' = r.lx.iter
           /\ lex_state' = r.lx.state
           /\ lexed' = Append(lexed, r.item)
    /\ UNCHANGED <<input, offset, notLexVars>>

(***************************************************************************)
(* The annotation parser (src/source/parse/mod.rs, src/source/mod.rs)      *)
(***************************************************************************)
START    == <<"/", "/", "~">>
START_OR == <<"/", "/", "~", "|">>

\* The parse errors of the parser itself; text lists the expected tokens as
\* they are displayed.
Expected(toks)        == [cls |-> "Expected", kind |-> "", text |-> toks]
LineDoesntExist       == [cls |-> "LineDoesntExist", kind |-> "", text |-> <<>>]
NoPrecedingAnnotation == [cls |-> "NoPrecedingAnnotation", kind |-> "", text |-> <<>>]
CARET_WS    == <<"^", " ">>
COLON_OR_WS == <<"^", "|", " ">>
COLON_WS    == <<":", " ">>
K           == <<"<kind>">>

\* A slip in which the subtraction may come to line 0.
LineSubToZero(line, rhs) ==
    IF line < rhs THEN None
    ELSE Some(line - rhs)

\* impl Sub<u32> for Line: checked_sub, and None for line 0
LineSub(line, rhs) ==
    IF line < rhs THEN None
    ELSE IF line - rhs = 0 THEN None
    ELSE Some(line - rhs)

\* str::trim, on a text whose only whitespace is the space
RECURSIVE TrimLeft(_)
TrimLeft(s) == IF s # <<>> /\ Head(s) = " " THEN TrimLeft(Tail(s)) ELSE s
RECURSIVE TrimRight(_)
TrimRight(s) ==
    IF s # <<>> /\ s[Len(s)] = " " THEN TrimRight(SubSeq(s, 1, Len(s) - 1)) ELSE s
Trim(s) == TrimRight(TrimLeft(s))

\* The items a lexer yields until its first None.
RECURSIVE LexAll(_)
LexAll(lx) ==
    LET r == LexerNext(lx)
    IN  IF r.item = None THEN <<>> ELSE <<r.item[1]>> \o LexAll(r.lx)

\* Parser::new
NewParser ==
    [curr_line |-> 0, last_line |-> None, last_match |-> None, lines |-> 0,
     start_of_line |-> 0, state |-> "Ok"]

\* A slip in which the newline that ends the last line is not counted.
next_line_no_newline(L, p) ==
    [p EXCEPT !.lines = p.lines + 1,
              !.start_of_line = IF p.last_line # None
                                THEN p.start_of_line + p.last_line[1]
                                ELSE p.start_of_line,
              !.last_line = Some(Len(L[p.lines + 1])),
              !.curr_line = p.curr_line + 1]

\* Parser::next_line, for a parser that has a next line
next_line(L, p) ==
    [p EXCEPT !.lines = p.lines + 1,
              !.start_of_line = IF p.last_line # None
                                THEN p.start_of_line + p.last_line[1] + 1
                                ELSE p.start_of_line,
              !.last_line = Some(Len(L[p.lines + 1])),
              !.curr_line = p.curr_line + 1]

\* The items of Parser::next: Ok((ln, kind, message)) and Err((span, e)).
OkItem(ln, kind, message) ==
    [ok |-> TRUE, ln |-> ln, kind |-> kind, message |-> message,
     span |-> <<0, 0>>, err |-> Tok("")]
ErrItem(span, e) ==
    [ok |-> FALSE, ln |-> 0, kind |-> "", message |-> <<>>, span |-> span, err |-> e]

\* A slip in which the error is returned without latching the parser.
fatal_no_latch(p, span, e) ==
    [item |-> Some(ErrItem(<<span[1] + p.start_of_line, span[2] + p.start_of_line>>, e)),
     at   |-> p.curr_line,
     p    |-> p]

\* Parser::fatal; at is the line the parser is at.
fatal(p, span, e) ==
    [item |-> Some(ErrItem(<<span[1] + p.start_of_line, span[2] + p.start_of_line>>, e)),
     at   |-> p.curr_line,
     p    |-> [p EXCEPT !.state = "Err"]]

\* The number of Caret tokens in a row from the k-th token on.
RECURSIVE CountCarets(_, _)
CountCarets(toks, k) ==
    IF k <= Len(toks) /\ toks[k].tok.cls = "Caret" THEN 1 + CountCarets(toks, k + 1) ELSE 0

\* `while let Some(&(_, Ok(Token::Whitespace))) = lexer.peek()`: the index of
\* the first token from the k-th on that is no whitespace.
RECURSIVE EatWhitespaces(_, _)
EatWhitespaces(toks, k) ==
    IF k <= Len(toks) /\ toks[k].tok.cls = "Whitespace" THEN EatWhitespaces(toks, k + 1) ELSE k

\* A slip in which the look-ahead takes every `//~|` line for a continuation.
RECURSIVE multi_line_no_kind_test(_, _, _)
multi_line_no_kind_test(L, p, message) ==
    IF p.lines >= Len(L) THEN [p |-> p, message |-> message]
    ELSE LET line == L[p.lines + 1]
             pos  == Find(line, START_OR)
         IN  IF pos = None THEN [p |-> p, message |-> message]
             ELSE LET text == Trim(SubSeq(line, pos[1] + Len(START_OR) + 1, Len(line)))
                  IN  multi_line_no_kind_test(L, next_line(L, p), message \o <<NL>> \o text)

\* `// check if the message is multi-line`: the look-ahead loop.
RECURSIVE multi_line(_, _, _)
multi_line(L, p, message) ==
    IF p.lines >= Len(L) THEN [p |-> p, message |-> message]
    ELSE LET line == L[p.lines + 1]
             pos  == Find(line, START_OR)
         IN  IF pos = None THEN [p |-> p, message |-> message]
             ELSE LET text  == Trim(SubSeq(line, pos[1] + Len(START_OR) + 1, Len(line)))
                      first == LexerNext(NewLexer(text, 0)).item
                  IN  IF first # None /\ first[1].tok.cls = "Kind"
                      THEN [p |-> p, message |-> message]
                      ELSE multi_line(L, next_line(L, p), message \o <<NL>> \o text)

\* A slip in which the adjusted line is the current line plus the carets.
adjusted_line_down(line, adj) == Some(line + adj)

\* `self.curr_line - adj`
adjusted_line(line, adj) == LineSub(line, adj)

\* A slip in which a shared annotation attaches to the current line.
shared_line_current(p) == Some(p.curr_line)

\* `self.last_match` of a shared annotation
shared_line(p) == p.last_match

\* `// <kind>`, `// optional ':'` and the message: k1 is the index of the
\* first token after the whitespace that follows the line part, ln the line
\* the annotation is attached to.
ParseKind(L, p, line, toks, ln, k1) ==
    LET n   == Len(toks)
        eol == <<Len(line), Len(line)>>
        k2  == k1 + 1
        k3  == IF k2 <= n /\ toks[k2].tok.cls = "Colon" THEN k2 + 1 ELSE k2
        k4  == EatWhitespaces(toks, k3)
        msgStart == IF k4 > n THEN Len(line) ELSE toks[k4].span[1]
    IN  IF k1 > n THEN fatal(p, eol, Expected(K))
        ELSE IF toks[k1].tok.cls # "Kind" THEN fatal(p, toks[k1].span, Expected(K))
        ELSE IF k2 <= n /\ toks[k2].tok.cls \notin {"Colon", "Whitespace"}
             THEN fatal(p, toks[k2].span, Expected(COLON_WS))
        ELSE LET more == multi_line(L, [p EXCEPT !.last_match = Some(ln)],
                                    SubSeq(line, msgStart + 1, Len(line)))
             IN  [item |-> Some(OkItem(ln, toks[k1].tok.kind, more.message)),
                  at   |-> p.curr_line,
                  p    |-> more.p]

\* `let ln = match lexer.next()`: the line part of the annotation, on the
\* tokens of the text after the marker, which starts at start.
ParseLine(L, p, line, start, toks) ==
    LET n   == Len(toks)
        eol == <<Len(line), Len(line)>>
        adj == CountCarets(toks, 1)
        k   == adj + 1
    IN  IF n = 0 THEN fatal(p, <<start, start>>, Expected(COLON_OR_WS))
        ELSE IF IsErr(toks[1].tok) THEN fatal(p, toks[1].span, toks[1].tok)
        ELSE IF toks[1].tok.cls = "Caret" THEN
            IF k > n THEN fatal(p, eol, Expected(CARET_WS))
            ELSE IF IsErr(toks[k].tok) THEN fatal(p, toks[k].span, toks[k].tok)
            ELSE IF toks[k].tok.cls # "Whitespace"
                 THEN fatal(p, toks[k].span, Expected(CARET_WS))
            ELSE IF adjusted_line(p.curr_line, adj) # None
                 THEN ParseKind(L, p, line, toks, adjusted_line(p.curr_line, adj)[1],
                                EatWhitespaces(toks, k + 1))
                 ELSE fatal(p, toks[1].span, LineDoesntExist)
        ELSE IF toks[1].tok.cls = "Or" THEN
            IF shared_line(p) # None
            THEN ParseKind(L, p, line, toks, shared_line(p)[1], EatWhitespaces(toks, 2))
            ELSE fatal(p, toks[1].span, NoPrecedingAnnotation)
        ELSE IF toks[1].tok.cls = "Whitespace"
             THEN ParseKind(L, p, line, toks, p.curr_line, EatWhitespaces(toks, 2))
        ELSE fatal(p, toks[1].span, Expected(COLON_OR_WS))

\* The body of `if let Some(pos) = line.find(START)`: the line of p holds the
\* marker at pos, and the lexer is made on the text after it.
ParseAnnotation(L, p, line, pos) ==
    ParseLine(L, p, line, pos + Len(START),
              LexAll(NewLexer(SubSeq(line, pos + Len(START) + 1, Len(line)),
                              pos + Len(START))))

\* A slip in which the marker is looked for by its two slashes alone.
FindMarkerSlashes(line) == Find(line, <<"/", "/">>)

\* `line.find(START)`
FindMarker(line) == Find(line, START)

\* A slip in which a line without the marker leaves last_match as it is.
RECURSIVE ParserScanKeepsMatch(_, _)
ParserScanKeepsMatch(L, p) ==
    IF p.lines >= Len(L) THEN [item |-> None, at |-> p.curr_line, p |-> p]
    ELSE LET line == L[p.lines + 1]
             q    == next_line(L, p)
             pos  == FindMarker(line)
         IN  IF pos # None THEN ParseAnnotation(L, q, line, pos[1])
             ELSE ParserScanKeepsMatch(L, q)

\* `while let Some(line) = self.next_line()`
RECURSIVE ParserScan(_, _)
ParserScan(L, p) ==
    IF p.lines >= Len(L) THEN [item |-> None, at |-> p.curr_line, p |-> p]
    ELSE LET line == L[p.lines + 1]
             q    == next_line(L, p)
             pos  == FindMarker(line)
         IN  IF pos # None THEN ParseAnnotation(L, q, line, pos[1])
             ELSE ParserScan(L, [q EXCEPT !.last_match = None])

\* Parser::next, on the lines L of the source: the item returned, the line
\* the parser was at when it returned, and the parser after the call.
ParserNext(L, p) ==
    IF p.state = "Err" THEN [item |-> None, at |-> p.curr_line, p |-> p]
    ELSE ParserScan(L, p)

\* format_error, from the k-th line of the source on: the line it finds for
\* the span, with the span made relative to it, or the unreachable!() after
\* its loop.  sol is its start_of_line.
RECURSIVE format_error_from(_, _, _, _)
format_error_from(L, k, sol, span) ==
    IF k > Len(L)
    THEN [res |-> "Unreachable", ln |-> 0, start |-> 0, end |-> 0, line |-> <<>>]
    ELSE IF sol <= span[1] /\ span[1] <= sol + Len(L[k])
         THEN [res |-> "Found", ln |-> k, start |-> span[1] - sol, end |-> span[2] - sol,
               line |-> L[k]]
         ELSE format_error_from(L, k + 1, sol + Len(L[k]) + 1, span)

\* format_error(path, source, span, e)
format_error(text, span) == format_error_from(Lines(text), 1, 0, span)

\* The lines the source texts are made of.
CodeLine      == <<"x">>
NearMissLine  == <<"/", "/", " ", "~", "x">>
InlineLine    == <<"x", " ", "/", "/", "~", " ", "E", "R", "R", "O", "R", " ", "m">>
AdjustedLine  == <<" ", "/", "/", "~", "^", " ", "w", "a", "r", "n", "i", "n", "g", ":", " ", "m">>
Adjusted3Line == <<"/", "/", "~", "^", "^", "^", " ", "E", "R", "R", "O", "R", " ", "m">>
SharedLine    == <<" ", "/", "/", "~", "|", " ", "N", "O", "T", "E", " ", "m">>
Shared0Line   == <<"/", "/", "~", "|", "h", "e", "l", "p", ":", "m">>
ContinuedLine == <<"/", "/", "~", "|", " ", "x", " ">>
MixedLine     == <<"/", "/", "~", "|", " ", "N", "o", "t", "e", " ", "m">>
LinePool ==
    {CodeLine, NearMissLine, InlineLine, AdjustedLine, Adjusted3Line, SharedLine,
     Shared0Line, ContinuedLine, MixedLine}

\* All sequences of at most n elements of S.
RECURSIVE SeqsUpTo(_, _)
SeqsUpTo(S, n) ==
    IF n = 0 THEN {<<>>}
    ELSE LET shorter == SeqsUpTo(S, n - 1)
         IN  shorter \cup {Append(t, x) : t \in {q \in shorter : Len(q) = n - 1}, x \in S}

\* The text of pad empty lines followed by the lines ls, each line ended by
\* a newline.
RECURSIVE SourceText(_, _)
SourceText(pad, ls) ==
    IF pad > 0 THEN <<NL>> \o SourceText(pad - 1, ls)
    ELSE IF ls = <<>> THEN <<>>
    ELSE Head(ls) \o <<NL>> \o SourceText(0, Tail(ls))

\* Source::parse is called: Parser::new(source) and the empty map.
InitParse ==
    /\ source \in {SourceText(pad, ls) : pad \in 0..MaxPad, ls \in SeqsUpTo(LinePool, MaxLines)}
    /\ curr_line = 0
    /\ last_line = None
    /\ last_match = None
    /\ lines = 0
    /\ start_of_line = 0
    /\ state = "Ok"
    /\ map = <<>>
    /\ parsed = None
    /\ yielded = <<>>

IdleParse ==
    /\ source = <<>>
    /\ curr_line = 0
    /\ last_line = None
    /\ last_match = None
    /\ lines = 0
    /\ start_of_line = 0
    /\ state = "Ok"
    /\ map = <<>>
    /\ parsed = None
    /\ yielded = <<>>

\* The Parser as a record of its fields.
ThisParser ==
    [curr_line |-> curr_line, last_line |-> last_line, last_match |-> last_match,
     lines |-> lines, start_of_line |-> start_of_line, state |-> state]

\* The call of parser.next() that the `for lka in parser` of Source::parse makes.
ThisNext == ParserNext(Lines(source), ThisParser)

SetParser(p) ==
    /\ curr_line' = p.curr_line
    /\ last_line' = p.last_line
    /\ last_match' = p.last_match
    /\ lines' = p.lines
    /\ start_of_line' = p.start_of_line
    /\ state' = p.state

\* The results of Source::parse.
OkParsed(m)       == [ok |-> TRUE, map |-> m, span |-> <<0, 0>>, err |-> Tok("")]
ErrParsed(sp, e)  == [ok |-> FALSE, map |-> <<>>, span |-> sp, err |-> e]

\* One turn of the loop of Source::parse whose item is an annotation: it is
\* stored in the map.
ParseInsert ==
    /\ parsed = None
    /\ \E r \in {ThisNext} :
          /\ r.item # None
          /\ r.item[1].ok
          /\ SetParser(r.p)
          /\ map' = MapInsert(map, r.item[1].ln, r.item[1].kind, r.item[1].message)
          /\ yielded' = Append(yielded, [at |-> r.at, item |-> r.item[1]])
    /\ UNCHANGED <<source, parsed, notParseVars>>

\* One turn of the loop of Source::parse whose item is an error: try! returns it.
ParseFail ==
    /\ parsed = None
    /\ \E r \in {ThisNext} :
          /\ r.item # None
          /\ ~r.item[1].ok
          /\ SetParser(r.p)
          /\ parsed' = Some(ErrParsed(r.item[1].span, r.item[1].err))
          /\ yielded' = Append(yielded, [at |-> r.at, item |-> r.item[1]])
    /\ UNCHANGED <<source, map, notParseVars>>

\* The parser is exhausted: Source::parse returns Ok(map).
ParseDone ==
    /\ parsed = None
    /\ \E r \in {ThisNext} :
          /\ r.item = None
          /\ SetParser(r.p)
          /\ parsed' = Some(OkParsed(map))
    /\ UNCHANGED <<source, map, yielded, notParseVars>>

(***************************************************************************)
(* The rustc stderr lexer and parser (src/rustc/parse, src/rustc/mod.rs)   *)
(***************************************************************************)
Digits == {"0", "1", "2", "3", "4", "5", "6", "7", "8", "9"}

\* The value of a digit and of a text of digits.
DigitValue(c) ==
    CASE c = "0" -> 0 [] c = "1" -> 1 [] c = "2" -> 2 [] c = "3" -> 3 [] c = "4" -> 4
      [] c = "5" -> 5 [] c = "6" -> 6 [] c = "7" -> 7 [] c = "8" -> 8 [] c = "9" -> 9
RECURSIVE DecimalValue(_)
DecimalValue(ds) ==
    IF ds = <<>> THEN 0
    ELSE 10 * DecimalValue(SubSeq(ds, 1, Len(ds) - 1)) + DigitValue(ds[Len(ds)])

\* u32::MAX in decimal, and the order of two texts of digits of one length.
U32_MAX == <<"4", "2", "9", "4", "9", "6", "7", "2", "9", "5">>
RECURSIVE DigitsGreater(_, _)
DigitsGreater(a, b) ==
    IF a = <<>> THEN FALSE
    ELSE IF Head(a) # Head(b) THEN DigitValue(Head(a)) > DigitValue(Head(b))
    ELSE DigitsGreater(Tail(a), Tail(b))

\* `.parse()` of a number token into u32: None when the number does not fit.
\* The texts of the model hold no number of ten digits that fits.
ParseU32(ds) ==
    IF Len(ds) > Len(U32_MAX) \/ (Len(ds) = Len(U32_MAX) /\ DigitsGreater(ds, U32_MAX))
    THEN None
    ELSE Some(DecimalValue(ds))

\* Tokens of the stderr lexer; value is 0 where it does not apply.
MTok(cls)       == [cls |-> cls, kind |-> "", value |-> 0]
MKindTok(kind)  == [cls |-> "Kind", kind |-> kind, value |-> 0]
NumberTok(n)    == [cls |-> "Number", kind |-> "", value |-> n]

\* rustc::parse::lexer::Lexer::new
NewMLexer(in) == [input |-> in, iter |-> 0, state |-> "Ok"]

\* The end of the digits that start at the (0-based) position i.
RECURSIVE NumberEnd(_, _)
NumberEnd(in, i) ==
    IF i < Len(in) /\ in[i + 1] \in Digits THEN NumberEnd(in, i + 1) ELSE i

\* The results of a call of next: None, Some(Ok(token)), Some(Err(())), or a
\* panic of the thread.
MNone(lx)     == [res |-> "None", tok |-> MTok(""), lx |-> lx]
MOk(tok, lx)  == [res |-> "Ok", tok |-> tok, lx |-> lx]
MErr(lx)      == [res |-> "Err", tok |-> MTok(""), lx |-> lx]
MPanic(lx)    == [res |-> "Panic", tok |-> MTok(""), lx |-> lx]

\* A slip in which the error is returned without latching the lexer.
MLexerError_no_latch(lx) == MErr(lx)

\* rustc::parse::lexer::Lexer::error
MLexerError(lx) == MErr([lx EXCEPT !.state = "Err"])

\* rustc::parse::lexer::Lexer::next
MLexerNext(lx) ==
    IF lx.state = "Err" THEN MNone(lx)
    ELSE IF lx.iter >= Len(lx.input) THEN MNone(lx)
    ELSE
      LET i    == lx.iter
          c    == lx.input[i + 1]
          one  == [lx EXCEPT !.iter = i + 1]
          kind == CASE c = "e" -> "Error"
                    [] c = "h" -> "Help"
                    [] c = "n" -> "Note"
                    [] c = "w" -> "Warning"
                    [] OTHER -> ""
          end  == NumberEnd(lx.input, i + 1)
      IN  CASE c = " " -> MOk(MTok("Whitespace"), one)
            [] c = ":" -> MOk(MTok("Colon"), one)
            [] kind # "" ->
                   IF StartsWith(SubSeq(lx.input, i + 1, Len(lx.input)), needle(kind))
                   THEN MOk(MKindTok(kind), [lx EXCEPT !.iter = i + Len(needle(kind))])
                   ELSE MLexerError(one)
            [] c \in Digits \ {"0"} ->
                   IF ParseU32(SubSeq(lx.input, i + 1, end)) # None
                   THEN MOk(NumberTok(ParseU32(SubSeq(lx.input, i + 1, end))[1]),
                            [lx EXCEPT !.iter = end])
                   ELSE MPanic([lx EXCEPT !.iter = end])
            [] OTHER -> MLexerError(one)

\* The tokens that the closure of Parser::next takes off the lexer, in order:
\* `:` <line> `:` <bytepos_start> `:` ` ` <line> `:` <bytepos_end> ` ` <kind> `:` ` `
HeaderTokens ==
    <<"Colon", "Number", "Colon", "Number", "Colon", "Whitespace", "Number", "Colon",
      "Number", "Whitespace", "Kind", "Colon", "Whitespace">>

\* The closure of Parser::next on the text after the path.  r is the result of
\* the k-th call of the lexer; ln and kind are the line and the kind taken so far.
RECURSIVE Header(_, _, _, _)
Header(k, r, ln, kind) ==
    IF r.res = "Panic" THEN [res |-> "Panic", ln |-> ln, kind |-> kind, offset |-> 0]
    \* `<path>:<line> ...`: a compiler span
    ELSE IF k = 3 /\ r.res = "Ok" /\ r.tok.cls = "Whitespace"
         THEN [res |-> "Span", ln |-> ln, kind |-> kind, offset |-> 0]
    ELSE IF r.res # "Ok" THEN [res |-> "Err", ln |-> ln, kind |-> kind, offset |-> 0]
    ELSE IF r.tok.cls # HeaderTokens[k]
         THEN [res |-> "Err", ln |-> ln, kind |-> kind, offset |-> 0]
    ELSE IF k = Len(HeaderTokens)
         THEN [res |-> "Header", ln |-> ln, kind |-> kind, offset |-> r.lx.iter]
    ELSE Header(k + 1, MLexerNext(r.lx),
                IF k = 2 THEN r.tok.value ELSE ln,
                IF r.tok.cls = "Kind" THEN r.tok.kind ELSE kind)

\* rustc::parse::Parser::new
NewMParser == [last_line |-> None, lines |-> 0, start_of_line |-> 0]

\* rustc::parse::Parser::next_line, for a parser that has a next line
m_next_line(L, p) ==
    [p EXCEPT !.lines = p.lines + 1,
              !.start_of_line = IF p.last_line # None
                                THEN p.start_of_line + p.last_line[1] + 1
                                ELSE p.start_of_line,
              !.last_line = Some(Len(L[p.lines + 1]))]

ABORTING ==
    <<"e", "r", "r", "o", "r", ":", " ", "a", "b", "o", "r", "t", "i", "n", "g", " ", "d", "u", "e", " ", "t", "o", " ">>

\* The items of Parser::next: None, Some(Ok((ln, kind, message))),
\* Some(Err(ParseStderr(line))), and the panic of the thread.  at is the number
\* of the line of stderr that the item was read from.
MItem(res, at, ln, kind, message, line, p) ==
    [res |-> res, at |-> at, ln |-> ln, kind |-> kind, message |-> message,
     line |-> line, p |-> p]

\* A slip in which the message ends at the end of the header line.
RECURSIVE message_end_one_line(_, _, _, _)
message_end_one_line(L, pth, p, curr_len) ==
    IF p.lines >= Len(L) THEN [panic |-> TRUE, end |-> 0, p |-> p]
    ELSE IF StartsWith(L[p.lines + 1], pth) \/ StartsWith(L[p.lines + 1], ABORTING)
         THEN [panic |-> FALSE, end |-> p.start_of_line + curr_len, p |-> p]
    ELSE [panic |-> FALSE, end |-> p.start_of_line + curr_len, p |-> m_next_line(L, p)]

\* `while let Some(next_line) = self.peek_line()` and the unreachable!() after
\* it: the end of the message, the parser being at curr_line of length curr_len.
RECURSIVE message_end(_, _, _, _)
message_end(L, pth, p, curr_len) ==
    IF p.lines >= Len(L) THEN [panic |-> TRUE, end |-> 0, p |-> p]
    ELSE IF StartsWith(L[p.lines + 1], pth) \/ StartsWith(L[p.lines + 1], ABORTING)
         THEN [panic |-> FALSE, end |-> p.start_of_line + curr_len, p |-> p]
    ELSE message_end(L, pth, m_next_line(L, p), Len(L[p.lines + 1]))

\* The message of a header: `&self.input[start..end]`.
MParserMessage(in, q, h, start, e) ==
    IF e.panic THEN MItem("Panic", q.lines, 0, "", <<>>, <<>>, e.p)
    ELSE MItem("Ok", q.lines, h.ln, h.kind, SubSeq(in, start + 1, e.end), <<>>, e.p)

RECURSIVE MParserScan(_, _, _, _)
\* `match (|| {...})()` of Parser::next and what follows it; h is the result
\* of the closure on the line, which q has just taken.
MParserHeader(in, L, pth, q, line, h) ==
    CASE h.res = "Panic" -> MItem("Panic", q.lines, 0, "", <<>>, <<>>, q)
      [] h.res = "Err" -> MItem("Err", q.lines, 0, "", <<>>, line, q)
      [] h.res = "Span" -> MParserScan(in, L, pth, q)
      [] h.res = "Header" ->
             MParserMessage(in, q, h, q.start_of_line + Len(pth) + h.offset,
                            message_end(L, pth, q, Len(line)))

\* `while let Some(line) = self.next_line()` of rustc::parse::Parser::next
MParserScan(in, L, pth, p) ==
    IF p.lines >= Len(L) THEN MItem("None", p.lines, 0, "", <<>>, <<>>, p)
    ELSE IF ~StartsWith(L[p.lines + 1], pth) THEN MParserScan(in, L, pth, m_next_line(L, p))
    ELSE MParserHeader(in, L, pth, m_next_line(L, p), L[p.lines + 1],
                       Header(1, MLexerNext(NewMLexer(SubSeq(L[p.lines + 1], Len(pth) + 1,
                                                             Len(L[p.lines + 1])))),
                              0, ""))

\* rustc::parse::Parser::next
MParserNext(in, pth, p) == MParserScan(in, Lines(in), pth, p)

\* The lines the stderr texts are made of, for the path `p`.
MsgHeader ==
    <<"p", ":", "2", ":", "1", ":", " ", "2", ":", "3", " ", "e", "r", "r", "o", "r", ":", " ", "m">>
MsgHeader10 ==
    <<"p", ":", "1", "0", ":", "1", ":", " ", "1", "0", ":", "3", " ", "w", "a", "r", "n", "i", "n", "g", ":", " ", "w">>
DocHeader ==
    <<"p", ":", "2", ":", "1", " ", "2", ":", "3", " ", "e", "r", "r", "o", "r", ":", " ", "m">>
SpanLine    == <<"p", ":", "2", " ", "~", "0">>
BodyLine    == <<" ", "b">>
SummaryLine ==
    <<"e", "r", "r", "o", "r", ":", " ", "a", "b", "o", "r", "t", "i", "n", "g", " ", "d", "u", "e", " ", "t", "o", " ", "1">>
OtherLine   == <<"x">>
HugeLine    == <<"p", ":", "4", "2", "9", "4", "9", "6", "7", "2", "9", "6", " ", "x">>
BadLine     == <<"p", ":", "x">>
StderrPool ==
    {MsgHeader, MsgHeader10, DocHeader, SpanLine, BodyLine,
     SummaryLine, OtherLine, HugeLine, BadLine}

\* The texts handed to the stderr lexer.
MLexInputs ==
    {<<"1", "2", ":", " ", "e", "r", "r", "o", "r", ":", " ", "m">>,
     <<"1", ":", "x", " ", "2">>,
     <<"w", "a", "r", "n", " ", "3">>,
     <<"e", "r", "r", "o", "r">>,
     <<"0">>,
     <<"e", ":">>,
     <<"4", "2", "9", "4", "9", "6", "7", "2", "9", "6", ":", "1">>,
     <<":", " ", "n", "o", "t", "e">>}

\* Lexer::new(input) of the stderr lexer.
InitMLex ==
    /\ m_input \in MLexInputs
    /\ m_iter = 0
    /\ m_lex_state = "Ok"
    /\ m_lexed = <<>>

IdleMLex ==
    /\ m_input = <<>>
    /\ m_iter = 0
    /\ m_lex_state = "Ok"
    /\ m_lexed = <<>>

\* The number of None at the end of the results the stderr lexer has had.
RECURSIVE MTrailingNones(_)
MTrailingNones(results) ==
    IF results # <<>> /\ results[Len(results)].res = "None"
    THEN 1 + MTrailingNones(SubSeq(results, 1, Len(results) - 1))
    ELSE 0

\* One call of next of the stderr lexer.  Calls are followed until the first
\* None and for some calls after it; a panic ends them.
CallMLexerNext ==
    /\ MTrailingNones(m_lexed) <= MaxIdleCalls
    /\ IF m_lexed = <<>> THEN TRUE ELSE m_lexed[Len(m_lexed)].res # "Panic"
    /\ \E r \in {MLexerNext([input |-> m_input, iter |-> m_iter, state |-> m_lex_state])} :
          /\ m_iter' = r.lx.iter
          /\ m_lex_state' = r.lx.state
          /\ m_lexed' = Append(m_lexed, [res |-> r.res, tok |-> r.tok])
    /\ UNCHANGED <<m_input, notMLexVars, lexVars>>

\* Stderr::parse is called: Parser::new(stderr, &self.source) and the empty map.
InitStderr ==
    /\ stderr \in {SourceText(0, ls) : ls \in SeqsUpTo(StderrPool, MaxStderrLines)}
    /\ path = <<"p">>
    /\ m_last_line = None
    /\ m_lines = 0
    /\ m_start_of_line = 0
    /\ m_map = <<>>
    /\ m_parsed = None
    /\ m_yielded = <<>>

IdleStderr ==
    /\ stderr = <<>>
    /\ path = <<>>
    /\ m_last_line = None
    /\ m_lines = 0
    /\ m_start_of_line = 0
    /\ m_map = <<>>
    /\ m_parsed = None
    /\ m_yielded = <<>>

\* The rustc Parser as a record of its fields.
ThisMParser ==
    [last_line |-> m_last_line, lines |-> m_lines, start_of_line |-> m_start_of_line]

\* The call of parser.next() that the `for lkm in parser` of Stderr::parse makes.
ThisMNext == MParserNext(stderr, path, ThisMParser)

SetMParser(p) ==
    /\ m_last_line' = p.last_line
    /\ m_lines' = p.lines
    /\ m_start_of_line' = p.start_of_line

\* The outcomes of Stderr::parse: Ok(map), Err(ParseStderr(line)), and the
\* panic of the thread that called it.
MParsed(res, m, line) == [res |-> res, map |-> m, line |-> line]

\* One turn of the loop of Stderr::parse whose item is a message: it is stored
\* in the map.
StderrInsert ==
    /\ m_parsed = None
    /\ \E r \in {ThisMNext} :
          /\ r.res = "Ok"
          /\ SetMParser(r.p)
          /\ m_map' = MapInsert(m_map, r.ln, r.kind, r.message)
          /\ m_yielded' = Append(m_yielded, [r EXCEPT !.p = 0])
    /\ UNCHANGED <<stderr, path, m_parsed, notStderrVars>>

\* One turn of the loop of Stderr::parse whose item is an error: try! returns it.
StderrFail ==
    /\ m_parsed = None
    /\ \E r \in {ThisMNext} :
          /\ r.res = "Err"
          /\ SetMParser(r.p)
          /\ m_parsed' = Some(MParsed("Err", <<>>, r.line))
          /\ m_yielded' = Append(m_yielded, [r EXCEPT !.p = 0])
    /\ UNCHANGED <<stderr, path, m_map, notStderrVars>>

\* The parser is exhausted: Stderr::parse returns Ok(map).
StderrDone ==
    /\ m_parsed = None
    /\ \E r \in {ThisMNext} :
          /\ r.res = "None"
          /\ SetMParser(r.p)
          /\ m_parsed' = Some(MParsed("Ok", m_map, <<>>))
    /\ UNCHANGED <<stderr, path, m_map, m_yielded, notStderrVars>>

\* The call of parser.next() panics: Stderr::parse does not return.
StderrPanic ==
    /\ m_parsed = None
    /\ \E r \in {ThisMNext} :
          /\ r.res = "Panic"
          /\ SetMParser(r.p)
          /\ m_parsed' = Some(MParsed("Panic", <<>>, <<>>))
          /\ m_yielded' = Append(m_yielded, [r EXCEPT !.p = 0])
    /\ UNCHANGED <<stderr, path, m_map, notStderrVars>>

(***************************************************************************)
(* test_ (src/lib.rs): the pipeline of one source file                     *)
(***************************************************************************)
IGNORE_TEST ==
    <<"/", "/", " ", "i", "g", "n", "o", "r", "e", "-", "t", "e", "s", "t">>
AUX_BUILD ==
    <<"/", "/", " ", "a", "u", "x", "-", "b", "u", "i", "l", "d">>
ERROR_PATTERN ==
    <<"/", "/", " ", "e", "r", "r", "o", "r", "-", "p", "a", "t", "t", "e", "r", "n">>

Ignored == [tag |-> "Ignored", report |-> <<>>]

\* The source files handed to test_, and the stderr texts that rustc leaves.
TestLinePool  ==
    {IGNORE_TEST, AUX_BUILD, ERROR_PATTERN, InlineLine, AdjustedLine, SharedLine, CodeLine}
TestSources   == {SourceText(0, ls) : ls \in SeqsUpTo(TestLinePool, MaxTestLines)}
ZeroHeader ==
    <<"p", ":", "0", ":", "1", ":", " ", "0", ":", "3", " ", "e", "r", "r", "o", "r", ":", " ", "m">>
RustcLinePool == {MsgHeader, ZeroHeader, SummaryLine, BadLine, OtherLine}
RustcStderrs  == {SourceText(0, ls) : ls \in SeqsUpTo(RustcLinePool, MaxRustcLines)}

\* test_ is called on a file whose text is source.
InitTest ==
    /\ source \in TestSources
    /\ curr_line = 0
    /\ last_line = None
    /\ last_match = None
    /\ lines = 0
    /\ start_of_line = 0
    /\ state = "Ok"
    /\ map = <<>>
    /\ parsed = None
    /\ yielded = <<>>
    /\ t_pc = "open"
    /\ t_error = None
    /\ t_rustc = 0

IdleTest ==
    /\ t_pc = "open"
    /\ t_error = None
    /\ t_rustc = 0

\* try!(Source::open(&path)): the file cannot be read.
TestOpenErr ==
    /\ t_pc = "open"
    /\ t_error' = Some("Io")
    /\ t_pc' = "returned"
    /\ UNCHANGED <<t_rustc, subVars, matchVars, lexVars, parseVars, stderrVars,
                   mlexVars, poolVars, compareVars>>

\* Source::open(&path) returns the text of the file.
TestOpen ==
    /\ t_pc = "open"
    /\ t_pc' = "directives"
    /\ UNCHANGED <<t_error, t_rustc, subVars, matchVars, lexVars, parseVars, stderrVars,
                   mlexVars, poolVars, compareVars>>

\* if source.contains("// ignore-test") { return Ok(Outcome::Ignored) }
TestIgnored ==
    /\ t_pc = "directives"
    /\ Contains(source, IGNORE_TEST)
    /\ outcome' = Some(Ignored)
    /\ t_pc' = "returned"
    /\ UNCHANGED <<t_error, t_rustc, anns_in, msgs_in, anns, msgs, mismatches, mpc, iters,
                   subVars, lexVars, parseVars, stderrVars,
                   mlexVars, poolVars, compareVars>>

\* A slip in which `// aux-build` is looked for before `// ignore-test`.
TestAuxBuildFirst ==
    /\ t_pc = "directives"
    /\ Contains(source, AUX_BUILD)
    /\ t_error' = Some("Unsupported(AuxBuild)")
    /\ t_pc' = "returned"
    /\ UNCHANGED <<t_rustc, subVars, matchVars, lexVars, parseVars, stderrVars,
                   mlexVars, poolVars, compareVars>>

\* if source.contains("// aux-build") { return Err(Unsupported(AuxBuild)) }
TestAuxBuild ==
    /\ t_pc = "directives"
    /\ ~Contains(source, IGNORE_TEST)
    /\ Contains(source, AUX_BUILD)
    /\ t_error' = Some("Unsupported(AuxBuild)")
    /\ t_pc' = "returned"
    /\ UNCHANGED <<t_rustc, subVars, matchVars, lexVars, parseVars, stderrVars,
                   mlexVars, poolVars, compareVars>>

\* if source.contains("// error-pattern") { return Err(Unsupported(ErrorPattern)) }
TestErrorPattern ==
    /\ t_pc = "directives"
    /\ ~Contains(source, IGNORE_TEST)
    /\ ~Contains(source, AUX_BUILD)
    /\ Contains(source, ERROR_PATTERN)
    /\ t_error' = Some("Unsupported(ErrorPattern)")
    /\ t_pc' = "returned"
    /\ UNCHANGED <<t_rustc, subVars, matchVars, lexVars, parseVars, stderrVars,
                   mlexVars, poolVars, compareVars>>

\* No directive is in the source: source.parse() is called.
TestSourceParse ==
    /\ t_pc = "directives"
    /\ ~Contains(source, IGNORE_TEST)
    /\ ~Contains(source, AUX_BUILD)
    /\ ~Contains(source, ERROR_PATTERN)
    /\ t_pc' = "source.parse"
    /\ UNCHANGED <<t_error, t_rustc, subVars, matchVars, lexVars, parseVars, stderrVars,
                   mlexVars, poolVars, compareVars>>

\* The turns of the loop of Source::parse, within test_.
TestParseInsert == t_pc = "source.parse" /\ ParseInsert
TestParseFail   == t_pc = "source.parse" /\ ParseFail
TestParseDone   == t_pc = "source.parse" /\ ParseDone

\* Err((span, e)) => return Err(Error::ParseSource(..))
TestParseSourceErr ==
    /\ t_pc = "source.parse"
    /\ parsed # None
    /\ ~parsed[1].ok
    /\ t_error' = Some("ParseSource")
    /\ t_pc' = "returned"
    /\ UNCHANGED <<t_rustc, subVars, matchVars, lexVars, parseVars, stderrVars,
                   mlexVars, poolVars, compareVars>>

\* try!(rustc::compile(..)): rustc is run and compiles the file, or it cannot
\* be run.
TestCompileErr ==
    /\ t_pc = "source.parse"
    /\ parsed # None
    /\ parsed[1].ok
    /\ t_rustc' = t_rustc + 1
    /\ \E e \in {"Io", "SuccessfulCompilation"} : t_error' = Some(e)
    /\ t_pc' = "returned"
    /\ UNCHANGED <<subVars, matchVars, lexVars, parseVars, stderrVars,
                   mlexVars, poolVars, compareVars>>

\* rustc::compile(..) returns the Stderr of a rustc that failed; output.parse()
\* is called.
TestCompile ==
    /\ t_pc = "source.parse"
    /\ parsed # None
    /\ parsed[1].ok
    /\ t_rustc' = t_rustc + 1
    /\ stderr' \in RustcStderrs
    /\ path' = <<"p">>
    /\ t_pc' = "output.parse"
    /\ UNCHANGED <<t_error, m_last_line, m_lines, m_start_of_line, m_map, m_parsed,
                   m_yielded, subVars, matchVars, lexVars, parseVars, mlexVars,
                   poolVars, compareVars>>

\* The turns of the loop of Stderr::parse, within test_.
TestStderrInsert == t_pc = "output.parse" /\ StderrInsert
TestStderrFail   == t_pc = "output.parse" /\ StderrFail
TestStderrDone   == t_pc = "output.parse" /\ StderrDone
TestStderrPanic  == t_pc = "output.parse" /\ StderrPanic

\* try!(output.parse()) returns the error.
TestParseStderrErr ==
    /\ t_pc = "output.parse"
    /\ m_parsed # None
    /\ m_parsed[1].res = "Err"
    /\ t_error' = Some("ParseStderr")
    /\ t_pc' = "returned"
    /\ UNCHANGED <<t_rustc, subVars, matchVars, lexVars, parseVars, stderrVars,
                   mlexVars, poolVars, compareVars>>

\* output.parse() panicked: test_ does not return, its thread unwinds.
TestPanic ==
    /\ t_pc = "output.parse"
    /\ m_parsed # None
    /\ m_parsed[1].res = "Panic"
    /\ t_pc' = "panicked"
    /\ UNCHANGED <<t_error, t_rustc, subVars, matchVars, lexVars, parseVars, stderrVars,
                   mlexVars, poolVars, compareVars>>

\* match_::match_(annotations, messages) is called.
TestMatch ==
    /\ t_pc = "output.parse"
    /\ m_parsed # None
    /\ m_parsed[1].res = "Ok"
    /\ anns_in' = parsed[1].map
    /\ msgs_in' = m_parsed[1].map
    /\ anns' = IntoIter(parsed[1].map)
    /\ msgs' = IntoIter(m_parsed[1].map)
    /\ mismatches' = NewRecord
    /\ mpc' = "loop"
    /\ t_pc' = "match"
    /\ UNCHANGED <<t_error, t_rustc, iters, outcome, subVars, lexVars, parseVars, stderrVars,
                   mlexVars, poolVars, compareVars>>

(***************************************************************************)
(* run (src/driver.rs): the thread pool, the channel and the collector     *)
(***************************************************************************)
Files == 1..NFiles

\* What test(&path) comes to in a worker: Ok(Outcome::Passed), Ok(Outcome::Failed(..)),
\* Ok(Outcome::Ignored) or Err(e).
TestResults == {"Passed", "Failed", "Ignored", "Err"}

\* run has read its arguments, made the pool and made the channel.
InitPool ==
    /\ threads \in 1..MaxThreads
    /\ jobs = [f \in Files |-> "unsubmitted"]
    /\ channel = <<>>
    /\ taken = 0
    /\ errors = 0
    /\ failed = 0
    /\ ignored = 0
    /\ passed = 0
    /\ r_pc = "execute"

IdlePool ==
    /\ threads = 0
    /\ jobs = <<>>
    /\ channel = <<>>
    /\ taken = 0
    /\ errors = 0
    /\ failed = 0
    /\ ignored = 0
    /\ passed = 0
    /\ r_pc = "execute"

notPoolVars == <<subVars, matchVars, lexVars, parseVars, stderrVars, mlexVars, testVars,
                 compareVars>>

\* for path in args { pool.execute(..) }: the closure of the next file is queued.
Execute ==
    /\ r_pc = "execute"
    /\ \E f \in Files :
          /\ jobs[f] = "unsubmitted"
          /\ \A g \in Files : g < f => jobs[g] # "unsubmitted"
          /\ jobs' = [jobs EXCEPT ![f] = "queued"]
    /\ UNCHANGED <<threads, channel, taken, errors, failed, ignored, passed, r_pc, notPoolVars>>

\* The for loop over the arguments ends; run goes on to rx.iter().take(ntests).
ExecuteDone ==
    /\ r_pc = "execute"
    /\ \A f \in Files : jobs[f] # "unsubmitted"
    /\ r_pc' = "collect"
    /\ UNCHANGED <<threads, jobs, channel, taken, errors, failed, ignored, passed, notPoolVars>>

\* A free thread of the pool takes the oldest queued closure and calls test(&path).
WorkerStart ==
    /\ Cardinality({f \in Files : jobs[f] = "running"}) < threads
    /\ \E f \in Files :
          /\ jobs[f] = "queued"
          /\ \A g \in Files : g < f => jobs[g] # "queued"
          /\ jobs' = [jobs EXCEPT ![f] = "running"]
    /\ UNCHANGED <<threads, channel, taken, errors, failed, ignored, passed, r_pc, notPoolVars>>

\* test(&path) returns and the closure sends (path, outcome).
WorkerSend ==
    /\ \E f \in Files, res \in TestResults :
          /\ jobs[f] = "running"
          /\ channel' = Append(channel, <<f, res>>)
          /\ jobs' = [jobs EXCEPT ![f] = "sent"]
    /\ UNCHANGED <<threads, taken, errors, failed, ignored, passed, r_pc, notPoolVars>>

\* test(&path) panics: the closure unwinds before tx.send, its clone of tx is
\* dropped and the thread is free again.
WorkerPanic ==
    /\ \E f \in Files :
          /\ jobs[f] = "running"
          /\ jobs' = [jobs EXCEPT ![f] = "panicked"]
    /\ UNCHANGED <<threads, channel, taken, errors, failed, ignored, passed, r_pc, notPoolVars>>

\* One turn of `for (path, outcome) in rx.iter().take(ntests)`: the oldest
\* item of the channel is taken and counted.
Collect ==
    /\ r_pc = "collect"
    /\ taken < NFiles
    /\ channel # <<>>
    /\ channel' = Tail(channel)
    /\ taken' = taken + 1
    /\ errors'  = IF Head(channel)[2] = "Err" THEN errors + 1 ELSE errors
    /\ failed'  = IF Head(channel)[2] = "Failed" THEN failed + 1 ELSE failed
    /\ ignored' = IF Head(channel)[2] = "Ignored" THEN ignored + 1 ELSE ignored
    /\ passed'  = IF Head(channel)[2] = "Passed" THEN passed + 1 ELSE passed
    /\ UNCHANGED <<threads, jobs, r_pc, notPoolVars>>

\* take(ntests) is exhausted: run prints the counters and returns.
CollectDone ==
    /\ r_pc = "collect"
    /\ taken = NFiles
    /\ r_pc' = "done"
    /\ UNCHANGED <<threads, jobs, channel, taken, errors, failed, ignored, passed, notPoolVars>>

(***************************************************************************)
(* compare (src/match_.rs), one turn of its inner loop at a time            *)
(***************************************************************************)
CompareTexts == {<<"a">>, <<"b">>, <<"a", "b">>}

\* The lists of a line and kind that has both annotations and messages; a
\* list that is present holds an entry.
CompareLists == SeqsUpTo(CompareTexts, MaxCompare) \ {<<>>}

\* compare is called: the two bit vectors are all false.
InitCompare ==
    /\ c_anns \in CompareLists
    /\ c_msgs \in CompareLists
    /\ c_i = 1
    /\ c_j = 1
    /\ c_matched_anns = BitVecFromElem(Len(c_anns), FALSE)
    /\ c_matched_msgs = BitVecFromElem(Len(c_msgs), FALSE)
    /\ c_pc = "loop"
    /\ c_result = None

IdleCompare ==
    /\ c_anns = <<>>
    /\ c_msgs = <<>>
    /\ c_i = 1
    /\ c_j = 1
    /\ c_matched_anns = <<>>
    /\ c_matched_msgs = <<>>
    /\ c_pc = "loop"
    /\ c_result = None

notCompareVars ==
    <<subVars, matchVars, lexVars, parseVars, stderrVars, mlexVars, testVars, poolVars>>

\* The pair of indices that follows (i, j) in the two nested loops.
NextPair(i, j, n) == IF j = n THEN <<i + 1, 1>> ELSE <<i, j + 1>>

\* A slip in which `!matched_anns[i]` is not tested.
CompareStepGreedy ==
    /\ c_pc = "loop"
    /\ c_i <= Len(c_anns)
    /\ IF ~c_matched_msgs[c_j] /\ is_substring(c_anns[c_i], c_msgs[c_j])
       THEN /\ c_matched_anns' = [c_matched_anns EXCEPT ![c_i] = TRUE]
            /\ c_matched_msgs' = [c_matched_msgs EXCEPT ![c_j] = TRUE]
       ELSE UNCHANGED <<c_matched_anns, c_matched_msgs>>
    /\ c_i' = NextPair(c_i, c_j, Len(c_msgs))[1]
    /\ c_j' = NextPair(c_i, c_j, Len(c_msgs))[2]
    /\ UNCHANGED <<c_anns, c_msgs, c_pc, c_result, notCompareVars>>

\* One turn of `for (j, &msg) in msgs.iter().enumerate()`.
CompareStep ==
    /\ c_pc = "loop"
    /\ c_i <= Len(c_anns)
    /\ IF ~c_matched_anns[c_i] /\ ~c_matched_msgs[c_j] /\ is_substring(c_anns[c_i], c_msgs[c_j])
       THEN /\ c_matched_anns' = [c_matched_anns EXCEPT ![c_i] = TRUE]
            /\ c_matched_msgs' = [c_matched_msgs EXCEPT ![c_j] = TRUE]
       ELSE UNCHANGED <<c_matched_anns, c_matched_msgs>>
    /\ c_i' = NextPair(c_i, c_j, Len(c_msgs))[1]
    /\ c_j' = NextPair(c_i, c_j, Len(c_msgs))[2]
    /\ UNCHANGED <<c_anns, c_msgs, c_pc, c_result, notCompareVars>>

\* The loops are over and every bit is set: compare returns None.
CompareReturnNone ==
    /\ c_pc = "loop"
    /\ c_i > Len(c_anns)
    /\ All(c_matched_anns) /\ All(c_matched_msgs)
    /\ c_result' = Some(None)
    /\ c_pc' = "returned"
    /\ UNCHANGED <<c_anns, c_msgs, c_i, c_j, c_matched_anns, c_matched_msgs, notCompareVars>>

\* The loops are over and a bit is clear: compare returns the Mismatch of the
\* entries whose bit is clear.
CompareReturnSome ==
    /\ c_pc = "loop"
    /\ c_i > Len(c_anns)
    /\ ~(All(c_matched_anns) /\ All(c_matched_msgs))
    /\ c_result' = Some(Some([annotations |-> Unmatched(c_anns, c_matched_anns),
                              messages    |-> Unmatched(c_msgs, c_matched_msgs)]))
    /\ c_pc' = "returned"
    /\ UNCHANGED <<c_anns, c_msgs, c_i, c_j, c_matched_anns, c_matched_msgs, notCompareVars>>

(***************************************************************************)
(* Specifications                                                          *)
(***************************************************************************)
IdleSub   == ann = <<>> /\ msg = <<>> /\ sub_result = None
IdleMatch == InitMatch

\* is_substring applied to every pair of bounded texts.
InitSubSpec == InitSub /\ IdleMatch /\ IdleLex /\ IdleParse /\ IdleStderr /\ IdleMLex /\ IdleTest /\ IdlePool /\ IdleCompare
NextSub == CallIsSubstring
SpecSub == InitSubSpec /\ [][NextSub]_vars

\* One iteration of the `loop` of match_.
MatchLoop ==
    \/ MatchBreak
    \/ MatchOnlyMsgs
    \/ MatchEqual
    \/ MatchGreater
    \/ MatchLess
    \/ MatchOnlyAnns

\* match_ applied to the maps the two parsers build.
InitMatchSpec == InitMatch /\ IdleSub /\ IdleLex /\ IdleParse /\ IdleStderr /\ IdleMLex /\ IdleTest /\ IdlePool /\ IdleCompare
NextMatch ==
    \/ InsertAnnotation
    \/ InsertMessage
    \/ MatchCall
    \/ MatchBreak
    \/ MatchOnlyMsgs
    \/ MatchEqual
    \/ MatchGreater
    \/ MatchLess
    \/ MatchOnlyAnns
    \/ TestPassed
    \/ TestFailed
SpecMatch == InitMatchSpec /\ [][NextMatch]_vars /\ WF_vars(MatchLoop)

\* The annotation lexer applied to bounded texts.
InitLexSpec == InitLex /\ IdleSub /\ IdleMatch /\ IdleParse /\ IdleStderr /\ IdleMLex /\ IdleTest /\ IdlePool /\ IdleCompare
NextLex == CallLexerNext
SpecLex == InitLexSpec /\ [][NextLex]_vars

\* Source::parse applied to bounded source texts.
InitParseSpec == InitParse /\ IdleSub /\ IdleMatch /\ IdleLex /\ IdleStderr /\ IdleMLex /\ IdleTest /\ IdlePool /\ IdleCompare
NextParse ==
    \/ ParseInsert
    \/ ParseFail
    \/ ParseDone
SpecParse == InitParseSpec /\ [][NextParse]_vars

\* The texts handed to the annotation lexer next to the stderr lexer.
LatchInputs ==
    {b \o w \o a : b \in {<<>>, <<"^", "^", " ">>},
                   w \in {<<"e", "r", "r", "o", "r">>, <<"E", "r", "r", "o", "r">>, <<"x">>},
                   a \in LexAfter}

\* The two lexers, each applied to bounded texts and called again after its
\* first None.
InitLexers ==
    /\ input \in LatchInputs
    /\ iter = 0
    /\ offset = 0
    /\ lex_state = "Ok"
    /\ lexed = <<>>
InitLexersSpec == InitLexers /\ InitMLex /\ IdleSub /\ IdleMatch /\ IdleParse /\ IdleStderr /\ IdleTest /\ IdlePool /\ IdleCompare
NextLexers ==
    \/ CallLexerNext
    \/ CallMLexerNext
SpecLexers == InitLexersSpec /\ [][NextLexers]_vars

\* test_ applied to bounded source files, with every bounded outcome of rustc.
InitTestSpec == InitTest /\ IdleSub /\ IdleMatch /\ IdleLex /\ IdleStderr /\ IdleMLex /\ IdlePool /\ IdleCompare
NextTest ==
    \/ TestOpenErr
    \/ TestOpen
    \/ TestIgnored
    \/ TestAuxBuild
    \/ TestErrorPattern
    \/ TestSourceParse
    \/ TestParseInsert
    \/ TestParseFail
    \/ TestParseDone
    \/ TestParseSourceErr
    \/ TestCompileErr
    \/ TestCompile
    \/ TestStderrInsert
    \/ TestStderrFail
    \/ TestStderrDone
    \/ TestStderrPanic
    \/ TestParseStderrErr
    \/ TestPanic
    \/ TestMatch
    \/ MatchBreak
    \/ MatchOnlyMsgs
    \/ MatchEqual
    \/ MatchGreater
    \/ MatchLess
    \/ MatchOnlyAnns
    \/ TestPassed
    \/ TestFailed
SpecTest == InitTestSpec /\ [][NextTest]_vars

\* run on NFiles files, with every outcome of test for each of them.
InitPoolSpec ==
    /\ InitPool /\ IdleSub /\ IdleMatch /\ IdleLex /\ IdleParse /\ IdleStderr /\ IdleMLex
    /\ IdleTest /\ IdleCompare
NextPool ==
    \/ Execute
    \/ ExecuteDone
    \/ WorkerStart
    \/ WorkerSend
    \/ WorkerPanic
    \/ Collect
    \/ CollectDone
SpecPool == InitPoolSpec /\ [][NextPool]_vars

\* compare applied to bounded lists.
InitCompareSpec ==
    /\ InitCompare /\ IdleSub /\ IdleMatch /\ IdleLex /\ IdleParse /\ IdleStderr /\ IdleMLex
    /\ IdleTest /\ IdlePool
NextCompare ==
    \/ CompareStep
    \/ CompareReturnNone
    \/ CompareReturnSome
SpecCompare == InitCompareSpec /\ [][NextCompare]_vars

\* Stderr::parse applied to bounded stderr texts.
InitStderrSpec == InitStderr /\ IdleSub /\ IdleMatch /\ IdleLex /\ IdleParse /\ IdleMLex /\ IdleTest /\ IdlePool /\ IdleCompare
NextStderr ==
    \/ StderrInsert
    \/ StderrFail
    \/ StderrDone
    \/ StderrPanic
SpecStderr == InitStderrSpec /\ [][NextStderr]_vars


(***************************************************************************)
(* Properties of is_substring                                              *)
(***************************************************************************)
\* The lines of al occur, in order, in pairwise different lines of ml.
OrderedEmbedding(al, ml) ==
    \E f \in [1..Len(al) -> 1..Len(ml)] :
        /\ \A k \in 1..(Len(al) - 1) : f[k] < f[k + 1]
        /\ \A k \in 1..Len(al) : Contains(ml[f[k]], al[k])

\* Both lines of the two-line al occur in ml, and only in one and the same
\* line of it.
OnlyInOneLine(al, ml) ==
    /\ Len(al) = 2
    /\ \E k \in 1..Len(ml) :
           /\ Contains(ml[k], al[1]) /\ Contains(ml[k], al[2])
           /\ \A o \in 1..Len(ml) :
                  o # k => ~Contains(ml[o], al[1]) /\ ~Contains(ml[o], al[2])

\* C3: is_substring(expected, actual) is true exactly when the lines of
\* expected are found in order in the lines of actual, each actual line
\* serving at most one expected line; so an expected text of zero lines
\* matches any actual text, and two expected lines that occur only inside one
\* and the same actual line do not match.
C3_IsSubstringForwardPass ==
    sub_result # None =>
        LET al == Lines(ann)
            ml == Lines(msg)
        IN  /\ sub_result[1] = OrderedEmbedding(al, ml)
            /\ (al = <<>> => sub_result[1])
            /\ (OnlyInOneLine(al, ml) => ~sub_result[1])

\* Two expected lines found in two different actual lines.
C3_Witness ==
    /\ sub_result = Some(TRUE)
    /\ Lines(ann) = << <<"a">>, <<"b">> >>
    /\ Lines(msg) = << <<"a">>, <<"b">> >>

(***************************************************************************)
(* Properties of match_                                                    *)
(***************************************************************************)
\* The (Line, Mismatch) entries recorded for a kind at a line.
EntriesAt(kind, ln) ==
    IF mismatches[kind] = None THEN <<>>
    ELSE SelectSeq(mismatches[kind][1], LAMBDA e : e[1] = ln)

\* First fit, row by row: expected entry i takes the first actual entry that
\* contains it and that no earlier expected entry took.
RECURSIVE FirstFit(_, _, _)
FirstFit(a, m, i) ==
    IF i = 0 THEN {}
    ELSE LET before == FirstFit(a, m, i - 1)
             free   == {j \in 1..Len(m) :
                            /\ \A p \in before : p[2] # j
                            /\ is_substring(a[i], m[j])}
         IN  IF free = {} THEN before
             ELSE before \cup {<<i, CHOOSE j \in free : \A o \in free : j <= o>>}

\* The entries of list, in order, that no pair of the pairing covers on the
\* given side (1: expected, 2: actual).
RECURSIVE Leftover(_, _, _, _)
Leftover(list, pairs, side, i) ==
    IF i > Len(list) THEN <<>>
    ELSE (IF \E p \in pairs : p[side] = i THEN <<>> ELSE <<list[i]>>)
         \o Leftover(list, pairs, side, i + 1)

\* C1: for a line of both maps and a kind both lists have, no Mismatch is
\* recorded exactly when the first-fit pass leaves every expected and every
\* actual entry matched; otherwise the one Mismatch recorded holds exactly the
\* unmatched expected and the unmatched actual entries, in list order.
C1_FirstFitMismatch ==
    mpc = "done" =>
        \A ln \in (DOMAIN anns_in) \cap (DOMAIN msgs_in) : \A kind \in Kind :
            (anns_in[ln][kind] # None /\ msgs_in[ln][kind] # None) =>
                LET a     == anns_in[ln][kind][1]
                    m     == msgs_in[ln][kind][1]
                    pairs == FirstFit(a, m, Len(a))
                    ua    == Leftover(a, pairs, 1, 1)
                    um    == Leftover(m, pairs, 2, 1)
                IN  IF ua = <<>> /\ um = <<>>
                    THEN EntriesAt(kind, ln) = <<>>
                    ELSE EntriesAt(kind, ln) =
                             << <<ln, [annotations |-> ua, messages |-> um]>> >>

\* Two expected and two actual entries of which first fit pairs only one.
C1_Witness ==
    /\ mpc = "done"
    /\ \E ln \in (DOMAIN anns_in) \cap (DOMAIN msgs_in) : \E kind \in Kind :
           /\ anns_in[ln][kind] # None /\ msgs_in[ln][kind] # None
           /\ Len(anns_in[ln][kind][1]) = 2
           /\ Len(msgs_in[ln][kind][1]) = 2
           /\ Len(EntriesAt(kind, ln)) = 1
           /\ Len(EntriesAt(kind, ln)[1][2].annotations) = 1
           /\ Len(EntriesAt(kind, ln)[1][2].messages) = 1

\* What match_ records for the lines that only the map own has; side tells
\* the side the list goes to.
OneSided(own, other, side) ==
    \A ln \in (DOMAIN own) \ (DOMAIN other) : \A kind \in Kind :
        IF own[ln][kind] # None
        THEN EntriesAt(kind, ln) =
                 << <<ln, IF side = "annotations"
                          THEN [annotations |-> own[ln][kind][1], messages |-> <<>>]
                          ELSE [annotations |-> <<>>, messages |-> own[ln][kind][1]]>> >>
        ELSE EntriesAt(kind, ln) = <<>>

\* C2: for a line that only one of the two maps has, match_ records, for each
\* kind present on that line, one Mismatch at that line and kind with the
\* whole list on its own side and nothing on the other side, and records
\* nothing for the kinds that are absent.
C2_OneSidedLines ==
    mpc = "done" =>
        /\ OneSided(anns_in, msgs_in, "annotations")
        /\ OneSided(msgs_in, anns_in, "messages")

\* A line only the annotations have and a line only the messages have.
C2_Witness ==
    /\ mpc = "done"
    /\ (DOMAIN anns_in) \ (DOMAIN msgs_in) # {}
    /\ (DOMAIN msgs_in) \ (DOMAIN anns_in) # {}

\* The cursor is what is left of the map after its first entries were taken.
IsRestOf(cursor, mp) ==
    LET all == IntoIter(mp)
    IN  /\ Len(cursor) <= Len(all)
        /\ cursor = SubSeq(all, Len(all) - Len(cursor) + 1, Len(all))

C4_Bounded ==
    mpc \in {"loop", "done"} =>
        /\ IsRestOf(anns, anns_in)
        /\ IsRestOf(msgs, msgs_in)
        /\ iters <= (Cardinality(DOMAIN anns_in) - Len(anns))
                      + (Cardinality(DOMAIN msgs_in) - Len(msgs))
        /\ iters <= Cardinality(DOMAIN anns_in) + Cardinality(DOMAIN msgs_in)
        /\ (mpc = "done" => anns = <<>> /\ msgs = <<>>)
        /\ (mpc = "loop" => ENABLED MatchLoop)

C4_Consumes ==
    (mpc = "loop" /\ mpc' = "loop") =>
        /\ (anns' = anns \/ (anns # <<>> /\ anns' = Tail(anns)))
        /\ (msgs' = msgs \/ (msgs # <<>> /\ msgs' = Tail(msgs)))
        /\ Len(anns') + Len(msgs') < Len(anns) + Len(msgs)

\* C4: match_ ends and returns a Mismatches value for all finite maps: each
\* iteration of its loop takes one entry off the expected cursor, off the
\* actual cursor or off both, some arm of the loop applies as long as it
\* runs, the loop ends after at most |anns| + |msgs| iterations, and each
\* entry of each map is taken once.
C4_MatchTerminates ==
    /\ []C4_Bounded
    /\ [][C4_Consumes]_vars
    /\ ((mpc = "loop") ~> (mpc = "done"))

\* match_ has returned after taking entries off both cursors.
C4_Witness ==
    /\ mpc = "done"
    /\ iters = 2
    /\ Cardinality(DOMAIN anns_in) = 2
    /\ Cardinality(DOMAIN msgs_in) = 2

(***************************************************************************)
(* Properties of the annotation parser                                     *)
(***************************************************************************)
\* The lines of the source text, and the forms of annotation a line can hold,
\* read off the text of the line.
SourceLines == Lines(source)

\* The text of a line after its first marker, for a line that holds one.
AfterMarker(line) == SubSeq(line, Find(line, START)[1] + Len(START) + 1, Len(line))

RECURSIVE LeadingCarets(_)
LeadingCarets(s) == IF s # <<>> /\ Head(s) = "^" THEN 1 + LeadingCarets(Tail(s)) ELSE 0

\* marker, one or more carets, a space
IsAdjusted(line) ==
    /\ Contains(line, START)
    /\ LeadingCarets(AfterMarker(line)) >= 1
    /\ LeadingCarets(AfterMarker(line)) < Len(AfterMarker(line))
    /\ AfterMarker(line)[LeadingCarets(AfterMarker(line)) + 1] = " "

\* marker, `|`
IsShared(line) == Contains(line, START) /\ StartsWith(AfterMarker(line), <<"|">>)

\* The annotation is in the map under its line and kind.
Stored(it) ==
    /\ it.ln \in DOMAIN map
    /\ map[it.ln][it.kind] # None
    /\ \E j \in 1..Len(map[it.ln][it.kind][1]) : map[it.ln][it.kind][1][j] = it.message

\* C5: an adjusted annotation with n >= 1 carets on physical line L attaches
\* its message to line L - n when L - n >= 1 and fails with LineDoesntExist
\* when L - n <= 0.
C5_AdjustedLine ==
    \A i \in 1..Len(yielded) :
        LET at == yielded[i].at
            it == yielded[i].item
            n  == LeadingCarets(AfterMarker(SourceLines[at]))
        IN  IsAdjusted(SourceLines[at]) =>
                IF at - n >= 1
                THEN /\ it.ok => (it.ln = at - n /\ Stored(it))
                     /\ ~it.ok => it.err # LineDoesntExist
                ELSE ~it.ok /\ it.err = LineDoesntExist

\* Three carets on line 10 have resolved to line 7.
C5_Witness ==
    \E i \in 1..Len(yielded) :
        /\ yielded[i].at = 10
        /\ SourceLines[10] = Adjusted3Line
        /\ yielded[i].item.ok
        /\ yielded[i].item.ln = 7

\* The greatest element of a non-empty set of numbers.
Max(S) == CHOOSE x \in S : \A y \in S : y <= x

\* The lines read so far that lie outside a marker run, under the two readings
\* of the run: the lines that do not start with the marker, and the lines that
\* do not contain it.
LinesNotStartingWithMarker == {k \in 1..lines : ~StartsWith(SourceLines[k], START)}
LinesWithoutMarker         == {k \in 1..lines : ~Contains(SourceLines[k], START)}

\* A shared annotation fails when no annotation was parsed since the start of
\* the file or the most recent of the lines Out before it.
SharedFails(Out) ==
    \A i \in 1..Len(yielded) :
        LET at   == yielded[i].at
            from == Max({0} \cup {k \in Out : k < at})
        IN  (/\ IsShared(SourceLines[at])
             /\ ~\E j \in 1..(i - 1) : yielded[j].item.ok /\ yielded[j].at > from)
            => (~yielded[i].item.ok /\ yielded[i].item.err = NoPrecedingAnnotation)

\* last_match is none after a line of Out was read.
ResetOn(Out) == (lines >= 1 /\ lines \in Out) => last_match = None

\* last_match is kept by the lines that are not in Out.
KeptOutside(Out) ==
    (\E j \in 1..Len(yielded) :
        yielded[j].item.ok /\ yielded[j].at > Max({0} \cup Out))
    => last_match # None

\* C6 as stated: the three rules, the marker run being delimited by the lines
\* that do not start with the marker.
C6_AsStated ==
    /\ SharedFails(LinesNotStartingWithMarker)
    /\ ResetOn(LinesNotStartingWithMarker)
    /\ KeptOutside(LinesNotStartingWithMarker)

\* C6: a shared annotation fails with NoPrecedingAnnotation whenever no
\* annotation was parsed since the start of the file or since the most recent
\* line that does not contain the marker; last_match is reset to none on every
\* line read that does not contain the marker, and never by a line that
\* contains it.
C6_SharedNeedsPreceding ==
    /\ SharedFails(LinesWithoutMarker)
    /\ ResetOn(LinesWithoutMarker)
    /\ KeptOutside(LinesWithoutMarker)

\* An annotation, a line without the marker, and a shared annotation that
\* has failed.
C6_Witness ==
    /\ Len(yielded) = 2
    /\ yielded[1].item.ok
    /\ IsShared(SourceLines[yielded[2].at])
    /\ yielded[2].item.err = NoPrecedingAnnotation
    /\ \E k \in (yielded[1].at + 1)..(yielded[2].at - 1) : k \in LinesWithoutMarker

\* C7: a shared annotation attaches to the line of the most recent parsed
\* annotation: after an adjusted annotation on line L that resolved to L - n it
\* is stored under L - n, and so is every shared annotation of a chain.
C7_SharedSameLine ==
    \A i \in 1..Len(yielded) :
        LET it == yielded[i].item
        IN  (it.ok /\ IsShared(SourceLines[yielded[i].at])) =>
                /\ i > 1
                /\ it.ln = yielded[i - 1].item.ln
                /\ Stored(it)
                /\ LET prev == SourceLines[yielded[i - 1].at]
                   IN  IsAdjusted(prev) =>
                           it.ln = yielded[i - 1].at - LeadingCarets(AfterMarker(prev))

\* An adjusted annotation and a chain of two shared ones, all on the line
\* above the adjusted annotation.
C7_Witness ==
    /\ Len(yielded) = 3
    /\ IsAdjusted(SourceLines[yielded[1].at])
    /\ IsShared(SourceLines[yielded[2].at])
    /\ IsShared(SourceLines[yielded[3].at])
    /\ \A i \in 1..3 : yielded[i].item.ok /\ yielded[i].item.ln = yielded[1].at - 1
    /\ \A i \in 1..3 : Stored(yielded[i].item)

\* The spellings of the kind keywords of the lexer's grammar.
KeywordSpellings ==
    {<<"e", "r", "r", "o", "r">>, <<"E", "R", "R", "O", "R">>,
     <<"h", "e", "l", "p">>, <<"H", "E", "L", "P">>,
     <<"n", "o", "t", "e">>, <<"N", "O", "T", "E">>,
     <<"w", "a", "r", "n", "i", "n", "g">>, <<"W", "A", "R", "N", "I", "N", "G">>}
StartsWithKeyword(t) == \E w \in KeywordSpellings : StartsWith(t, w)

\* The text of a line after its `//~|`, trimmed.
ContinuationText(line) ==
    Trim(SubSeq(line, Find(line, START_OR)[1] + Len(START_OR) + 1, Len(line)))
IsContinuation(line) ==
    Contains(line, START_OR) /\ ~StartsWithKeyword(ContinuationText(line))

\* The number of continuation lines that follow line k in a row, and the text
\* that c of them append.
RECURSIVE Continuations(_)
Continuations(k) ==
    IF k + 1 <= Len(SourceLines) /\ IsContinuation(SourceLines[k + 1])
    THEN 1 + Continuations(k + 1)
    ELSE 0
RECURSIVE Appended(_, _)
Appended(k, c) ==
    IF c = 0 THEN <<>>
    ELSE <<NL>> \o ContinuationText(SourceLines[k + 1]) \o Appended(k + 1, c - 1)

\* C8: the lines that directly follow an annotation, contain `//~|` and have
\* no kind keyword at the start of the text after it yield no annotation;
\* the text of each is appended after one newline to the message of the
\* annotation; a `//~|` line with a kind keyword ends the message and is
\* parsed as the next annotation, a shared one.
C8_Continuation ==
    \A i \in 1..Len(yielded) :
        LET it   == yielded[i].item
            at   == yielded[i].at
            c    == Continuations(at)
            app  == Appended(at, c)
            m    == it.message
            past == at + c + 1
        IN  it.ok =>
              /\ Len(m) >= Len(app)
              /\ SubSeq(m, Len(m) - Len(app) + 1, Len(m)) = app
              /\ ~Contains(SubSeq(m, 1, Len(m) - Len(app)), <<NL>>)
              /\ \A j \in 1..Len(yielded) : yielded[j].at \notin (at + 1)..(at + c)
              /\ (/\ past <= Len(SourceLines)
                  /\ IsShared(SourceLines[past])
                  /\ StartsWithKeyword(ContinuationText(SourceLines[past])))
                 => /\ parsed # None => Len(yielded) > i
                    /\ Len(yielded) > i =>
                          /\ yielded[i + 1].at = past
                          /\ yielded[i + 1].item.ok => yielded[i + 1].item.ln = it.ln

\* An annotation whose message took one continuation line, followed by a
\* shared annotation.
C8_Witness ==
    /\ Len(yielded) = 2
    /\ yielded[1].item.ok /\ yielded[2].item.ok
    /\ Continuations(yielded[1].at) = 1
    /\ yielded[1].item.message = <<"m", NL, "x">>
    /\ yielded[2].at = yielded[1].at + 2
    /\ IsShared(SourceLines[yielded[2].at])

\* C10: for every source text without the marker the parser yields no item
\* and no error, and Source::parse returns the empty map.
C10_NoMarkerEmptyMap ==
    ~Contains(source, START) =>
        /\ yielded = <<>>
        /\ map = <<>>
        /\ parsed # None => parsed = Some(OkParsed(<<>>))

\* Source::parse has returned for a text of three lines, one of them a comment
\* that nearly holds the marker.
C10_Witness ==
    /\ ~Contains(source, START)
    /\ Len(SourceLines) = 3
    /\ \E k \in 1..3 : SourceLines[k] = NearMissLine
    /\ parsed = Some(OkParsed(<<>>))

(***************************************************************************)
(* Properties of the annotation lexer                                      *)
(***************************************************************************)
\* The two spellings of the keyword of a kind in the lexer's grammar.
LowerSpelling(kind) ==
    CASE kind = "Error"   -> <<"e", "r", "r", "o", "r">>
      [] kind = "Warning" -> <<"w", "a", "r", "n", "i", "n", "g">>
      [] kind = "Help"    -> <<"h", "e", "l", "p">>
      [] kind = "Note"    -> <<"n", "o", "t", "e">>
UpperSpelling(kind) ==
    CASE kind = "Error"   -> <<"E", "R", "R", "O", "R">>
      [] kind = "Warning" -> <<"W", "A", "R", "N", "I", "N", "G">>
      [] kind = "Help"    -> <<"H", "E", "L", "P">>
      [] kind = "Note"    -> <<"N", "O", "T", "E">>

\* w spells the keyword of kind in upper- and lower-case letters.
IsSpellingOf(w, kind) ==
    /\ Len(w) = Len(LowerSpelling(kind))
    /\ \A j \in 1..Len(w) : w[j] \in {LowerSpelling(kind)[j], UpperSpelling(kind)[j]}

\* The word of the length of the keyword of kind at which the i-th lexed item
\* starts; empty when the input is shorter.
WordAt(i, kind) ==
    LET from == lexed[i][1].span[1] - offset
        to   == from + Len(LowerSpelling(kind))
    IN  IF to <= Len(input) THEN SubSeq(input, from + 1, to) ELSE <<>>

\* C9 as stated: every upper/lower-case spelling of a keyword is lexed as the
\* Kind token of that keyword.
C9_AsStated ==
    \A i \in 1..Len(lexed) : \A kind \in Kind :
        (lexed[i] # None /\ IsSpellingOf(WordAt(i, kind), kind))
        => lexed[i][1].tok = KindTok(kind)

\* C9: the all-lower-case and the all-upper-case spelling of each of the four
\* keywords are lexed as the Kind token of that keyword and never as an
\* UnknownKind error; every mixed spelling is an UnknownKind error.
C9_TwoSpellings ==
    \A i \in 1..Len(lexed) : \A kind \in Kind :
        (lexed[i] # None /\ IsSpellingOf(WordAt(i, kind), kind))
        => IF WordAt(i, kind) \in {LowerSpelling(kind), UpperSpelling(kind)}
           THEN lexed[i][1].tok = KindTok(kind)
           ELSE lexed[i][1].tok.cls = "UnknownKind"

\* WARNING after two carets and a space has been lexed as the kind Warning.
C9_Witness ==
    /\ Len(lexed) >= 4
    /\ lexed[4] # None
    /\ WordAt(4, "Warning") = UpperSpelling("Warning")
    /\ lexed[4][1].tok = KindTok("Warning")
    /\ lexed[4][1].span = <<offset + 3, offset + 10>>

\* C11: annotation parsing is fail-fast: the first error is the last item the
\* parser yields, the parser is latched and a later call of next yields
\* nothing, and Source::parse returns that error alone, without a map.
C11_FailFast ==
    /\ \A i \in 1..(Len(yielded) - 1) : yielded[i].item.ok
    /\ (yielded # <<>> /\ ~yielded[Len(yielded)].item.ok) =>
          /\ state = "Err"
          /\ ParserNext(SourceLines, ThisParser).item = None
          /\ ParserNext(SourceLines, ThisParser).p = ThisParser
          /\ parsed = Some(ErrParsed(yielded[Len(yielded)].item.span,
                                     yielded[Len(yielded)].item.err))
          /\ parsed[1].map = <<>>
    /\ (parsed # None /\ parsed[1].ok) =>
          /\ state = "Ok"
          /\ parsed[1].map = map
          /\ \A i \in 1..Len(yielded) : Stored(yielded[i].item)

\* An annotation was stored, the next line failed, and a well-formed
\* annotation is left unread on the line after it.
C11_Witness ==
    /\ Len(yielded) = 2
    /\ yielded[1].item.ok
    /\ ~yielded[2].item.ok
    /\ map # <<>>
    /\ parsed # None /\ ~parsed[1].ok
    /\ lines = Len(SourceLines) - 1
    /\ SourceLines[Len(SourceLines)] = InlineLine

(***************************************************************************)
(* Properties of the rustc stderr parser                                   *)
(***************************************************************************)
StderrLines == Lines(stderr)

\* The number of digits a text starts with.
RECURSIVE LeadingDigits(_)
LeadingDigits(s) ==
    IF s # <<>> /\ Head(s) \in Digits THEN 1 + LeadingDigits(Tail(s)) ELSE 0

\* The forms of a line after the path, part by part: "N" is a positive decimal
\* number, "K" one of the four lowercase keywords, another character itself.
\* DocForm is `:<line>:<col> <line>:<col> <kind>: `, ColonForm the same with a
\* colon after the first <col>, SpanForm `:<line> `.
DocForm   == <<":", "N", ":", "N", " ", "N", ":", "N", " ", "K", ":", " ">>
ColonForm == <<":", "N", ":", "N", ":", " ", "N", ":", "N", " ", "K", ":", " ">>
SpanForm  == <<":", "N", " ">>

\* Whether the text s starts with the form; the numbers and the kind found
\* in it, and the text after it.
RECURSIVE MatchForm(_, _, _, _)
MatchForm(s, form, nums, kind) ==
    IF form = <<>> THEN [ok |-> TRUE, nums |-> nums, kind |-> kind, rest |-> s]
    ELSE IF Head(form) = "N" THEN
        IF LeadingDigits(s) = 0 \/ Head(s) = "0"
        THEN [ok |-> FALSE, nums |-> nums, kind |-> kind, rest |-> s]
        ELSE MatchForm(SubSeq(s, LeadingDigits(s) + 1, Len(s)), Tail(form),
                       Append(nums, SubSeq(s, 1, LeadingDigits(s))), kind)
    ELSE IF Head(form) = "K" THEN
        IF \E k \in Kind : StartsWith(s, LowerSpelling(k))
        THEN MatchForm(SubSeq(s, Len(LowerSpelling(CHOOSE k \in Kind :
                                        StartsWith(s, LowerSpelling(k)))) + 1, Len(s)),
                       Tail(form), nums,
                       CHOOSE k \in Kind : StartsWith(s, LowerSpelling(k)))
        ELSE [ok |-> FALSE, nums |-> nums, kind |-> kind, rest |-> s]
    ELSE IF s # <<>> /\ Head(s) = Head(form)
         THEN MatchForm(Tail(s), Tail(form), nums, kind)
    ELSE [ok |-> FALSE, nums |-> nums, kind |-> kind, rest |-> s]

\* The line read as the path followed by the form.
LineAs(line, form) ==
    IF StartsWith(line, path)
    THEN MatchForm(SubSeq(line, Len(path) + 1, Len(line)), form, <<>>, "")
    ELSE [ok |-> FALSE, nums |-> <<>>, kind |-> "", rest |-> line]

\* The item that was read from a line of the form is a message of the kind
\* of the line, under its first number, whose text starts at the text after
\* the form.
YieldsMessage(y, form) ==
    LET h == LineAs(StderrLines[y.at], form)
    IN  h.ok =>
          /\ y.res = "Ok"
          /\ h.nums[1] = <<"1", "0">> => y.ln = 10
          /\ h.nums[1] = <<"2">> => y.ln = 2
          /\ y.kind = h.kind
          /\ LET first == SplitNL(y.message)[1]
             IN  first = h.rest
          /\ y.ln \in DOMAIN m_map
          /\ m_map[y.ln][y.kind] # None
          /\ \E j \in 1..Len(m_map[y.ln][y.kind][1]) : m_map[y.ln][y.kind][1][j] = y.message

\* C12 as stated: a line of the form `<path>:<line>:<col> <line>:<col> <kind>:
\* <message>` is recognised as a header and yields one message of that kind
\* under that line number, whose text starts at <message>.
C12_AsStated == \A i \in 1..Len(m_yielded) : YieldsMessage(m_yielded[i], DocForm)

\* C13 as stated: a line of the form `<path>:<line> <excerpt>` is skipped: no
\* message, no parse error and no other item comes from it.
C13_AsStated ==
    \A i \in 1..Len(m_yielded) : ~LineAs(StderrLines[m_yielded[i].at], SpanForm).ok

\* The lines that end a message.
IsTerminator(line) == StartsWith(line, path) \/ StartsWith(line, ABORTING)
Terminators(at) == {k \in (at + 1)..Len(StderrLines) : IsTerminator(StderrLines[k])}
Min(S) == CHOOSE x \in S : \A y \in S : x <= y

\* The lines a to b of stderr as they stand in the text.
RECURSIVE JoinLines(_, _)
JoinLines(a, b) ==
    IF a > b THEN <<>>
    ELSE IF a = b THEN StderrLines[a]
    ELSE StderrLines[a] \o <<NL>> \o JoinLines(a + 1, b)

\* C14: the message of a recognised header is the slice of stderr from right
\* after the `: ` that ends the header to the end of the last line before the
\* next line that starts with the path or with `error: aborting due to `;
\* that line is not part of the message, is not taken off the input and is
\* examined as a candidate header on the next step.
C14_MessageSlice ==
    \A i \in 1..Len(m_yielded) :
        LET y  == m_yielded[i]
            t  == Min(Terminators(y.at))
        IN  y.res = "Ok" =>
              /\ Terminators(y.at) # {}
              /\ LineAs(StderrLines[y.at], ColonForm).ok
              /\ y.message = IF t = y.at + 1
                             THEN LineAs(StderrLines[y.at], ColonForm).rest
                             ELSE LineAs(StderrLines[y.at], ColonForm).rest
                                      \o <<NL>> \o JoinLines(y.at + 1, t - 1)
              /\ (Len(m_yielded) = i /\ m_parsed = None) => m_lines = t - 1
              /\ (StartsWith(StderrLines[t], path) /\ ~LineAs(StderrLines[t], SpanForm).ok) =>
                    /\ m_parsed # None => Len(m_yielded) > i
                    /\ Len(m_yielded) > i => m_yielded[i + 1].at = t

\* A message of two lines that the next header has ended, and the message of
\* that header.
C14_Witness ==
    /\ Len(m_yielded) = 2
    /\ m_yielded[1].res = "Ok" /\ m_yielded[1].at = 1
    /\ m_yielded[1].message = <<"m", NL, " ", "b">>
    /\ m_yielded[2].res = "Ok" /\ m_yielded[2].at = 3
    /\ m_yielded[2].message = <<"w">>

\* C15 as stated: Stderr::parse ends with a map or with a ParseStderr error
\* that carries the raw line it could not parse, and never with a panic.
C15_AsStated ==
    /\ m_parsed # None => m_parsed[1].res \in {"Ok", "Err"}
    /\ (m_parsed # None /\ m_parsed[1].res = "Err") =>
          \E k \in 1..Len(StderrLines) : m_parsed[1].line = StderrLines[k]

(***************************************************************************)
(* Properties of the Mismatches and of format                              *)
(***************************************************************************)
\* The place of a kind in the report.
KindRank(kind) ==
    CASE kind = "Error" -> 1 [] kind = "Warning" -> 2 [] kind = "Help" -> 3 [] kind = "Note" -> 4

\* The head lines among the lines of a report, in their order.
RECURSIVE HeadLines(_)
HeadLines(report) ==
    IF report = <<>> THEN <<>>
    ELSE (IF Head(report).kind # "" THEN <<Head(report)>> ELSE <<>>) \o HeadLines(Tail(report))

\* The entries of a bucket are in strictly ascending line order.
Ascending(entries) ==
    \A a, b \in 1..Len(entries) : a < b => entries[a][1] < entries[b][1]

\* C19: the entries of each Kind bucket of the Mismatches are in strictly
\* ascending line order, and format writes the buckets in the order Error,
\* Warning, Help, Note, the entries of each bucket in that line order, one
\* head line for each.
C19_ReportOrder ==
    /\ \A kind \in Kind : mismatches[kind] # None => Ascending(mismatches[kind][1])
    /\ (outcome # None /\ outcome[1].tag = "Failed") =>
          LET heads == HeadLines(outcome[1].report)
          IN  /\ \A a, b \in 1..Len(heads) :
                    a < b => \/ KindRank(heads[a].kind) < KindRank(heads[b].kind)
                             \/ /\ heads[a].kind = heads[b].kind
                                /\ heads[a].line < heads[b].line
              /\ \A kind \in Kind :
                    {heads[a].line : a \in {x \in 1..Len(heads) : heads[x].kind = kind}}
                      = IF mismatches[kind] = None THEN {}
                        ELSE {mismatches[kind][1][j][1] : j \in 1..Len(mismatches[kind][1])}

\* A report of two kinds on two lines: the Error bucket with the lines 1 and
\* 2, then a Note of line 1.
C19_Witness ==
    /\ outcome # None /\ outcome[1].tag = "Failed"
    /\ mismatches["Error"] # None /\ Len(mismatches["Error"][1]) = 2
    /\ mismatches["Note"] # None
    /\ LET heads == HeadLines(outcome[1].report)
       IN  /\ Len(heads) = 3
           /\ heads[1].kind = "Error" /\ heads[1].line = 1
           /\ heads[2].kind = "Error" /\ heads[2].line = 2
           /\ heads[3].kind = "Note" /\ heads[3].line = 1

\* C20: no Mismatch of the Mismatches has both its annotations and its
\* messages empty, and every bucket that is present holds an entry.
C20_NoEmptyMismatch ==
    \A kind \in Kind :
        mismatches[kind] # None =>
            /\ mismatches[kind][1] # <<>>
            /\ \A j \in 1..Len(mismatches[kind][1]) :
                   ~(/\ mismatches[kind][1][j][2].annotations = <<>>
                     /\ mismatches[kind][1][j][2].messages = <<>>)

\* match_ has returned: a line whose annotations and messages match has no
\* entry, another line has one.
C20_Witness ==
    /\ mpc = "done"
    /\ \E ln \in (DOMAIN anns_in) \cap (DOMAIN msgs_in) :
          /\ anns_in[ln] = msgs_in[ln]
          /\ \A kind \in Kind :
                mismatches[kind] # None =>
                    \A j \in 1..Len(mismatches[kind][1]) : mismatches[kind][1][j][1] # ln
    /\ \E kind \in Kind : mismatches[kind] # None

----------------------------------------------------------------------------
\* Properties of the two lexers

\* C18: both lexers latch on their first error: once a call of next has
\* returned an error token, every later call returns None.
C18_Latch ==
    /\ \A i \in 1..Len(lexed) : \A j \in 1..Len(lexed) :
          (i < j /\ lexed[i] # None /\ IsErr(lexed[i][1].tok)) => lexed[j] = None
    /\ \A i \in 1..Len(m_lexed) : \A j \in 1..Len(m_lexed) :
          (i < j /\ m_lexed[i].res = "Err") => m_lexed[j].res = "None"

\* Both lexers have returned an error with text left to read, and have been
\* called MaxIdleCalls times since.
C18_Witness ==
    /\ Len(lexed) > MaxIdleCalls
    /\ lexed[Len(lexed) - MaxIdleCalls] # None
    /\ IsErr(lexed[Len(lexed) - MaxIdleCalls][1].tok)
    /\ iter < Len(input)
    /\ TrailingNones(lexed) = MaxIdleCalls
    /\ Len(m_lexed) > MaxIdleCalls
    /\ m_lexed[Len(m_lexed) - MaxIdleCalls].res = "Err"
    /\ m_iter < Len(m_input)
    /\ MTrailingNones(m_lexed) = MaxIdleCalls

----------------------------------------------------------------------------
\* Properties of test_

\* Source::open returned the text of the file.
Opened == t_pc # "open" /\ ~(t_error = Some("Io") /\ t_rustc = 0)

\* Neither Source::parse nor rustc has been started.
NothingParsedOrCompiled ==
    /\ parsed = None /\ yielded = <<>> /\ lines = 0
    /\ t_rustc = 0 /\ stderr = <<>> /\ m_parsed = None

\* C16: the directive checks come before any parsing, in a fixed order: a
\* source with `// ignore-test` yields Ignored whatever else it holds; without
\* it, a source with `// aux-build` or `// error-pattern` yields the
\* Unsupported error (AuxBuild first), and in both cases the source is not
\* parsed and rustc is not run.
C16_DirectivesFirst ==
    Opened =>
      /\ Contains(source, IGNORE_TEST) =>
            /\ NothingParsedOrCompiled
            /\ t_pc \in {"directives", "returned"}
            /\ t_pc = "returned" => (outcome = Some(Ignored) /\ t_error = None)
      /\ (~Contains(source, IGNORE_TEST)
          /\ (Contains(source, AUX_BUILD) \/ Contains(source, ERROR_PATTERN))) =>
            /\ NothingParsedOrCompiled
            /\ t_pc \in {"directives", "returned"}
            /\ t_pc = "returned" =>
                  /\ outcome = None
                  /\ t_error = IF Contains(source, AUX_BUILD)
                               THEN Some("Unsupported(AuxBuild)")
                               ELSE Some("Unsupported(ErrorPattern)")

\* test_ has returned Ignored for a source that holds `// ignore-test` after
\* `// aux-build` and next to a shared annotation that nothing precedes.
C16_Witness ==
    /\ source = SourceText(0, <<AUX_BUILD, SharedLine, IGNORE_TEST>>)
    /\ t_pc = "returned"
    /\ outcome = Some(Ignored)

----------------------------------------------------------------------------
\* Properties of run

\* Every closure is over and nothing is left in the channel.
Quiescent ==
    /\ \A f \in Files : jobs[f] \in {"sent", "panicked"}
    /\ channel = <<>>

\* C17, as stated: each file yields one outcome that reaches the collector,
\* and the collector counts one outcome per file and stops.  Once every
\* closure is over and the channel is empty, one outcome of each file has
\* been counted (passed + failed + ignored + errors = number of files) and
\* the collector is not waiting.
C17_AsStated ==
    (r_pc # "execute" /\ Quiescent) =>
        /\ taken = NFiles
        /\ passed + failed + ignored + errors = NFiles

----------------------------------------------------------------------------
\* Properties of the two maps that test_ hands to match_

\* C21: every Line key of the map of annotations and of the map of messages
\* is >= 1, and so is the line of every annotation and of every message that
\* the two parsers yield.
C21_LineKeysPositive ==
    /\ \A k \in DOMAIN map : k >= 1
    /\ \A k \in DOMAIN m_map : k >= 1
    /\ \A i \in 1..Len(yielded) : yielded[i].item.ok => yielded[i].item.ln >= 1
    /\ \A i \in 1..Len(m_yielded) : m_yielded[i].res = "Ok" => m_yielded[i].ln >= 1

\* An adjusted annotation of line 2 is stored under line 1, and a message is
\* stored before a header of line 0 is refused.
C21_Witness ==
    /\ source = SourceText(0, <<CodeLine, AdjustedLine>>)
    /\ DOMAIN map = {1}
    /\ stderr = SourceText(0, <<MsgHeader, ZeroHeader>>)
    /\ DOMAIN m_map = {2}
    /\ m_parsed # None
    /\ m_parsed[1].res = "Err"

----------------------------------------------------------------------------
\* Properties of the Outcome that test_ makes of the Mismatches

\* C22: the Outcome is Passed exactly when the Error and the Warning bucket
\* are both absent, whatever the Help and the Note bucket hold, and Failed
\* otherwise; the report of a Failed has a head line for every entry of the
\* Help and of the Note bucket.
C22_ErrorsAndWarningsDecide ==
    outcome # None =>
      /\ outcome[1].tag \in {"Passed", "Failed"}
      /\ outcome[1].tag = "Passed" <=>
            (mismatches["Error"] = None /\ mismatches["Warning"] = None)
      /\ outcome[1].tag = "Failed" =>
            \A kind \in {"Help", "Note"} :
                mismatches[kind] # None =>
                    \A j \in 1..Len(mismatches[kind][1]) :
                        \E h \in 1..Len(outcome[1].report) :
                            /\ outcome[1].report[h].kind = kind
                            /\ outcome[1].report[h].line = mismatches[kind][1][j][1]

\* test_ has returned Passed although the Help bucket and the Note bucket
\* both hold a Mismatch.
C22_Witness ==
    /\ outcome = Some(Passed)
    /\ mismatches["Help"] # None
    /\ mismatches["Note"] # None

----------------------------------------------------------------------------
\* Properties of compare

\* The number of bits of a bit vector that are set.
RECURSIVE CountTrue(_)
CountTrue(bits) ==
    IF bits = <<>> THEN 0 ELSE (IF Head(bits) THEN 1 ELSE 0) + CountTrue(Tail(bits))

\* C23: at every step of compare as many annotations as messages are matched,
\* so the unmatched annotations outnumber the unmatched messages by as much
\* as the list of annotations is longer than the list of messages; compare
\* returns what the two bit vectors say, and it returns a Mismatch for two
\* lists of different lengths.
C23_OneToOne ==
    /\ CountTrue(c_matched_anns) = CountTrue(c_matched_msgs)
    /\ (Len(c_anns) - CountTrue(c_matched_anns)) - (Len(c_msgs) - CountTrue(c_matched_msgs))
         = Len(c_anns) - Len(c_msgs)
    /\ c_result # None =>
          /\ c_result[1] = compare(c_anns, c_msgs)
          /\ Len(c_anns) # Len(c_msgs) => c_result[1] # None
          /\ c_result[1] # None =>
                Len(c_result[1][1].annotations) - Len(c_result[1][1].messages)
                  = Len(c_anns) - Len(c_msgs)

\* compare has returned a Mismatch for three annotations and two messages of
\* which two pairs matched.
C23_Witness ==
    /\ c_result # None
    /\ c_result[1] # None
    /\ Len(c_anns) = 3 /\ Len(c_msgs) = 2
    /\ CountTrue(c_matched_anns) = 2
    /\ Len(c_result[1][1].annotations) = 1
    /\ c_result[1][1].messages = <<>>

----------------------------------------------------------------------------
\* Properties of the positions that the annotation parser keeps

\* The byte offset of the k-th line of the lines L.
RECURSIVE LineOffset(_, _)
LineOffset(L, k) == IF k <= 1 THEN 0 ELSE LineOffset(L, k - 1) + Len(L[k - 1]) + 1

\* C24: after every call of Parser::next, curr_line is the 1-based index of
\* the last line taken off the source and start_of_line is the byte offset of
\* that line, continuation lines included; the span of an error starts and
\* ends inside the line at which the parser failed, and format_error finds
\* that line and does not reach its unreachable!().
C24_PositionsAndSpans ==
    /\ curr_line = lines
    /\ start_of_line = LineOffset(SourceLines, lines)
    /\ \A i \in 1..Len(yielded) :
          ~yielded[i].item.ok =>
              LET span == yielded[i].item.span
                  at   == yielded[i].at
                  f    == format_error(source, span)
              IN  /\ at = lines
                  /\ at >= 1
                  /\ LineOffset(SourceLines, at) <= span[1]
                  /\ span[1] <= span[2]
                  /\ span[2] <= LineOffset(SourceLines, at) + Len(SourceLines[at])
                  /\ f.res = "Found"
                  /\ f.ln = at
                  /\ f.line = SourceLines[at]

\* The parser failed at line 3, after the look-ahead took line 2 as the
\* continuation of the annotation of line 1, with the span at the caret.
C24_Witness ==
    /\ source = SourceText(0, <<InlineLine, ContinuedLine, Adjusted3Line>>)
    /\ Len(yielded) = 2
    /\ yielded[1].item.ok
    /\ ~yielded[2].item.ok
    /\ lines = 3
    /\ yielded[2].item.span[1] = Len(InlineLine) + 1 + Len(ContinuedLine) + 1 + 3
    /\ format_error(source, yielded[2].item.span).ln = 3
====
